---- MODULE Spec2Model ----
(***************************************************************************)
(* Model of the volumetric tissue-property compositing pass of simpa:      *)
(*   ModelBasedVolumeCreationAdapter.create_simulation_volume              *)
(*   MolecularComposition (update_internal_properties,                     *)
(*                         get_properties_for_wavelength)                  *)
(*   AbsorptionSpectrum (constructor, get_absorption_for_wavelength,       *)
(*                       __eq__)                                           *)
(*   Molecule (constructor)                                                *)
(*                                                                         *)
(*   AbsorptionSpectrumLibrary (iteration, get_spectra_names,              *)
(*                              get_spectrum_by_name)                      *)
(*                                                                         *)
(* Specifications.  Spec, SpecTagged and SpecMixed run the compositing     *)
(* pass, SpecMixed more than once with update_internal_properties() in     *)
(* between; SpecComposition makes direct calls on one                      *)
(* MolecularComposition; SpecLibrary makes one constructor call, lookup    *)
(* or comparison; SpecSharedLibrary makes calls on SPECTRAL_LIBRARY.       *)
(*                                                                         *)
(* Numbers.  Every fraction (occupancy, volume fraction, committed         *)
(* fraction) is held as an integer numerator over the denominator One, so  *)
(* the code's float 1 is One, 0.6 is 3 and 0.4 is 2.  Sums and products    *)
(* are exact; float rounding is not modelled.                              *)
(*                                                                         *)
(* Python's None is the empty tuple; a value x that may be None is <<x>>.  *)
(***************************************************************************)
EXTENDS Integers, Sequences, FiniteSets, TLC

\* The float 1 of the capacity tests (`global_volume_fractions < 1`,
\* `added_volume_fraction > 1`), as a numerator over itself.
One == 5

\* How many structures the settings hold at most.
MaxStructs == 2

\* How many times the caller runs create_simulation_volume on the same
\* settings at most.
MaxRuns == 2

None == << >>

Some(x) == << x >>

Min(a, b) == IF a <= b THEN a ELSE b

RECURSIVE SumOver(_, _, _)
\* sum of F[i] for i in lo..hi, F a function or sequence of integers
SumOver(F, lo, hi) == IF lo > hi THEN 0 ELSE F[lo] + SumOver(F, lo + 1, hi)

(***************************************************************************)
(* AbsorptionSpectrum                                                      *)
(***************************************************************************)

\* np.interp(x, xp, fp) for ascending xp and xp[1] <= x <= xp[Len(xp)]:
\* the raw value at a raw wavelength, the straight line between the two
\* neighbouring raw points elsewhere.  The raw points used in this model
\* make every interpolated value an integer.
Interp(x, xp, fp) ==
    LET k == CHOOSE i \in 1..Len(xp) :
                 /\ xp[i] <= x
                 /\ \A j \in 1..Len(xp) : xp[j] <= x => j <= i
    IN  IF xp[k] = x \/ k = Len(xp)
        THEN fp[k]
        ELSE fp[k] + ((x - xp[k]) * (fp[k + 1] - fp[k])) \div (xp[k + 1] - xp[k])

SeqMax(s) == CHOOSE m \in {s[i] : i \in 1..Len(s)} : \A i \in 1..Len(s) : s[i] <= m

SeqMin(s) == CHOOSE m \in {s[i] : i \in 1..Len(s)} : \A i \in 1..Len(s) : m <= s[i]

\* AbsorptionSpectrum.__init__ for arrays of equal shape: the object's fields.
\* new_absorptions[i] is the table entry of wavelength min_wavelength + i - 1.
AbsorptionSpectrum(spectrum_name, wavelengths, absorption_per_centimeter) ==
    LET mx == SeqMax(wavelengths)
        mn == SeqMin(wavelengths)
    IN  [ spectrum_name |-> spectrum_name,
          wavelengths |-> wavelengths,
          absorption_per_centimeter |-> absorption_per_centimeter,
          max_wavelength |-> mx,
          min_wavelength |-> mn,
          new_absorptions |->
              [ i \in 1..(mx - mn + 1) |->
                    Interp(mn + i - 1, wavelengths, absorption_per_centimeter) ] ]

\* AbsorptionSpectrum.__init__ without the test of the shapes: the longer
\* array is cut to the length of the shorter one.
NewAbsorptionSpectrumTruncating(spectrum_name, wavelengths, absorption_per_centimeter) ==
    LET k == Min(Len(wavelengths), Len(absorption_per_centimeter))
    IN  IF k = 0
        THEN [ok |-> FALSE, error |-> "ValueError", object |-> None]
        ELSE [ ok |-> TRUE, error |-> "",
               object |-> Some(AbsorptionSpectrum(spectrum_name,
                                                  SubSeq(wavelengths, 1, k),
                                                  SubSeq(absorption_per_centimeter, 1, k))) ]

\* The outcome of the constructor call AbsorptionSpectrum(name, wavelengths,
\* absorption_per_centimeter) on one-dimensional arrays: np.max of an empty
\* array raises ValueError (line 40), arrays of different shapes raise the
\* ValueError of line 45; otherwise the object is built.
NewAbsorptionSpectrum(spectrum_name, wavelengths, absorption_per_centimeter) ==
    IF Len(wavelengths) = 0
    THEN [ok |-> FALSE, error |-> "ValueError", object |-> None]
    ELSE IF Len(wavelengths) # Len(absorption_per_centimeter)
    THEN [ok |-> FALSE, error |-> "ValueError", object |-> None]
    ELSE [ ok |-> TRUE, error |-> "",
           object |-> Some(AbsorptionSpectrum(spectrum_name, wavelengths,
                                              absorption_per_centimeter)) ]

\* The lookup with the two range tests that the source holds as comments.
get_absorption_within_bounds(spectrum, w) ==
    IF w > spectrum.max_wavelength \/ w < spectrum.min_wavelength
    THEN [ok |-> FALSE, value |-> 0]
    ELSE [ok |-> TRUE, value |-> spectrum.new_absorptions[w - spectrum.min_wavelength + 1]]

\* The table read one entry too far: index wavelength - min_wavelength + 1.
get_absorption_off_by_one(spectrum, w) ==
    LET len == Len(spectrum.new_absorptions)
        i == w - spectrum.min_wavelength + 1
    IN  IF 0 <= i /\ i < len
        THEN [ok |-> TRUE, value |-> spectrum.new_absorptions[i + 1]]
        ELSE IF -len <= i /\ i < 0
             THEN [ok |-> TRUE, value |-> spectrum.new_absorptions[len + i + 1]]
             ELSE [ok |-> FALSE, value |-> 0]

\* The outcome of new_absorptions[wavelength - min_wavelength]: Python
\* indexing, where an index i with -len <= i < 0 reads entry len + i and an
\* index outside -len..len-1 raises IndexError.
\* [ok |-> TRUE, value |-> v] or [ok |-> FALSE].
get_absorption_for_wavelength(spectrum, w) ==
    LET len == Len(spectrum.new_absorptions)
        i == w - spectrum.min_wavelength
    IN  IF 0 <= i /\ i < len
        THEN [ok |-> TRUE, value |-> spectrum.new_absorptions[i + 1]]
        ELSE IF -len <= i /\ i < 0
             THEN [ok |-> TRUE, value |-> spectrum.new_absorptions[len + i + 1]]
             ELSE [ok |-> FALSE, value |-> 0]

\* x == y on two numpy arrays: the array of the elementwise comparisons
\* when the shapes agree.  When they differ, numpy gives the scalar False
\* (with a warning) or, in later releases, raises; shape_mismatch_raises says
\* which numpy is installed.
ArrayEq(x, y, shape_mismatch_raises) ==
    IF Len(x) = Len(y)
    THEN [ok |-> TRUE, value |-> [i \in 1..Len(x) |-> x[i] = y[i]]]
    ELSE IF shape_mismatch_raises
         THEN [ok |-> FALSE, value |-> FALSE]
         ELSE [ok |-> TRUE, value |-> FALSE]

\* isinstance(other, AbsorptionSpectrum)
IsAbsorptionSpectrum(other) == "spectrum_name" \in DOMAIN other

\* The value of `self == other` for an AbsorptionSpectrum self: what __eq__
\* returns, a tuple of three comparisons, or, for an operand of another
\* class, the False Python falls back to after object.__eq__ gave
\* NotImplemented.
\*   ok      FALSE when a comparison of the arrays raised
\*   value   the value of the expression
\*   truth   bool(value): a tuple of three entries is true
__eq__(self, other, shape_mismatch_raises) ==
    IF IsAbsorptionSpectrum(other)
    THEN LET w == ArrayEq(self.wavelengths, other.wavelengths, shape_mismatch_raises)
             a == ArrayEq(self.absorption_per_centimeter,
                          other.absorption_per_centimeter, shape_mismatch_raises)
             t == << self.spectrum_name = other.spectrum_name, w.value, a.value >>
         IN  IF w.ok /\ a.ok
             THEN [ok |-> TRUE, value |-> t, truth |-> Len(t) # 0]
             ELSE [ok |-> FALSE, value |-> << >>, truth |-> FALSE]
    ELSE [ok |-> TRUE, value |-> << >>, truth |-> FALSE]

(***************************************************************************)
(* AbsorptionSpectrumLibrary                                               *)
(***************************************************************************)

\* The names of the spectra of self.spectra, in the order of the list.
SpectraNames ==
    << "Deoxyhemoglobin", "Oxyhemoglobin", "Water", "Fat", "Melanin",
       "Nickel Sulphide", "Copper Sulphide", "Constant Absorber (0)",
       "Constant Absorber (1)", "Constant Absorber (10)" >>

\* self.spectra: a library spectrum is told from the others by its name.
spectra == [k \in 1..Len(SpectraNames) |-> [spectrum_name |-> SpectraNames[k]]]

\* __next__ on a library whose self.i is index.  Python's spectra[self.i]
\* after the decrement is the element at position index of the list.
__next__(index) ==
    IF index > 0
    THEN [ stopped |-> FALSE, i |-> index - 1, spectrum |-> Some(spectra[index]) ]
    ELSE [ stopped |-> TRUE, i |-> index, spectrum |-> None ]

RECURSIVE ForSpectrumInSelf(_, _)
\* `for spectrum in self` run to its end: the spectra visited, appended to
\* visited, and self.i afterwards.  __iter__ returns self, so the loop goes
\* on from where self.i stands.
ForSpectrumInSelf(index, visited) ==
    LET step == __next__(index)
    IN  IF step.stopped
        THEN [ visited |-> visited, i |-> step.i ]
        ELSE ForSpectrumInSelf(step.i, Append(visited, step.spectrum[1]))

get_spectra_names(index) ==
    LET loop == ForSpectrumInSelf(index, << >>)
    IN  [ ok |-> TRUE,
          value |-> [k \in 1..Len(loop.visited) |-> loop.visited[k].spectrum_name],
          i |-> loop.i ]

RECURSIVE get_spectrum_by_name(_, _)
\* ok is FALSE when LookupError is raised.
get_spectrum_by_name(index, spectrum_name) ==
    LET step == __next__(index)
    IN  IF step.stopped
        THEN [ ok |-> FALSE, value |-> None, i |-> step.i ]
        ELSE IF step.spectrum[1].spectrum_name = spectrum_name
        THEN [ ok |-> TRUE, value |-> step.spectrum, i |-> step.i ]
        ELSE get_spectrum_by_name(step.i, spectrum_name)

(***************************************************************************)
(* Molecule and MolecularComposition                                       *)
(***************************************************************************)

\* The anisotropy values of the model are multiples of AnisotropyUnit, so
\* that the division of the anisotropy aggregate by a summed volume fraction
\* of up to 16 / One, or of 18 / One, is exact: AnisotropyUnit * One = 720720 = lcm(1..16).
AnisotropyUnit == 144144

\* Molecule.__init__ with f_ray and b_mie left at their default 0.0, for
\* which the scattering term mus500 * (f_ray * (w/500) ** 1e-4 +
\* (1 - f_ray) * (w/500) ** -b_mie) is mus500 at every wavelength.
Molecule(spectrum, volume_fraction, mus500, anisotropy, gruneisen_parameter, density, speed_of_sound, alpha_coefficient) ==
    [ spectrum |-> spectrum,
      volume_fraction |-> volume_fraction,
      mus500 |-> mus500,
      f_ray |-> 0,
      b_mie |-> 0,
      anisotropy |-> anisotropy,
      gruneisen_parameter |-> gruneisen_parameter,
      density |-> density,
      speed_of_sound |-> speed_of_sound,
      alpha_coefficient |-> alpha_coefficient ]

\* A fresh TissueProperties(): volume_fraction 0 and every property 0, so
\* that the += of update_internal_properties start from 0.
TissueProperties ==
    [ volume_fraction |-> 0,
      segmentation |-> Some(0),
      absorption_per_cm |-> 0,
      scattering_per_cm |-> 0,
      anisotropy |-> 0,
      gruneisen_parameter |-> 0,
      density |-> 0,
      speed_of_sound |-> 0,
      alpha_coefficient |-> 0 ]

\* The sum of the property without the volume fractions as weights.
UnweightedSum(mols, field) ==
    SumOver([i \in 1..Len(mols) |-> mols[i][field]], 1, Len(mols))

\* The product volume_fraction * x of two numbers held over One is held
\* over One * One; the aggregates keep that scale (nothing divides them).
WeightedSum(mols, field) ==
    SumOver([i \in 1..Len(mols) |-> mols[i].volume_fraction * mols[i][field]],
            1, Len(mols))

\* The record after the loop over the molecules of
\* update_internal_properties, before the test on the summed volume fraction.
SummedProperties(mols, segmentation_type) ==
    [ TissueProperties EXCEPT
        !.segmentation = segmentation_type,
        !.volume_fraction =
            SumOver([i \in 1..Len(mols) |-> mols[i].volume_fraction], 1, Len(mols)),
        !.anisotropy = WeightedSum(mols, "anisotropy"),
        !.gruneisen_parameter = WeightedSum(mols, "gruneisen_parameter"),
        !.density = WeightedSum(mols, "density"),
        !.speed_of_sound = WeightedSum(mols, "speed_of_sound"),
        !.alpha_coefficient = WeightedSum(mols, "alpha_coefficient") ]

\* Every aggregate divided by the summed volume fraction, not the anisotropy
\* alone.
update_dividing_every_aggregate(mols, segmentation_type) ==
    LET r == SummedProperties(mols, segmentation_type)
        d(x) == (x * One) \div r.volume_fraction
    IN  IF r.volume_fraction > One
        THEN [r EXCEPT !.anisotropy = d(@), !.gruneisen_parameter = d(@),
                       !.density = d(@), !.speed_of_sound = d(@),
                       !.alpha_coefficient = d(@)]
        ELSE r

\* MolecularComposition.update_internal_properties: the new record.  The
\* oxygenation entry (calculate_oxygenation) is not a field of the output
\* volume and is left out.  anisotropy / volume_fraction, both over One:
\* (a / One^2) / (vf / One) = (a / vf) / One, held over One^2 as a * One / vf.
update_internal_properties(mols, segmentation_type) ==
    LET r == SummedProperties(mols, segmentation_type)
    IN  IF r.volume_fraction > One
        THEN [r EXCEPT !.anisotropy = (r.anisotropy * One) \div r.volume_fraction]
        ELSE r

\* The sums added onto the record the composition held, label kept.
RecordSummedOnto(record, mols, segmentation_type) ==
    LET r == update_internal_properties(mols, segmentation_type)
    IN  [ r EXCEPT !.segmentation = record.segmentation,
                   !.volume_fraction = record.volume_fraction + @,
                   !.anisotropy = record.anisotropy + @,
                   !.gruneisen_parameter = record.gruneisen_parameter + @,
                   !.density = record.density + @,
                   !.speed_of_sound = record.speed_of_sound + @,
                   !.alpha_coefficient = record.alpha_coefficient + @ ]

\* self.internal_properties after update_internal_properties() on a
\* composition that held record: the first statement replaces the record by
\* a fresh TissueProperties(), the sums start from it.
RebuiltRecord(record, mols, segmentation_type) ==
    update_internal_properties(mols, segmentation_type)

\* The molecules whose spectrum lookup raises at wavelength w.
FailingMolecules(mols, w) ==
    {i \in 1..Len(mols) : ~get_absorption_for_wavelength(mols[i].spectrum, w).ok}

\* The absorption term without its weight.
AbsorptionTermUnweighted(m, w) == get_absorption_for_wavelength(m.spectrum, w).value

\* The per-molecule absorption term of the loop of get_properties_for_wavelength.
AbsorptionTerm(m, w) ==
    m.volume_fraction * get_absorption_for_wavelength(m.spectrum, w).value

\* The per-molecule scattering term (f_ray = 0, b_mie = 0).
ScatteringTerm(m, w) == m.volume_fraction * m.mus500

\* The else branch of get_properties_for_wavelength: the two entries are set
\* to 0, the loop adds every molecule's terms, and the sums are stored in the
\* cache slot of w.  When the lookup of molecule k raises, the record holds
\* the sums over the molecules before k and the cache is untouched.
\* evaluated counts the calls of spectrum.get_absorption_for_wavelength.
ComputedProperties(mols, props, ca, cs, w) ==
    LET bad == FailingMolecules(mols, w)
        last == IF bad = {} THEN Len(mols)
                ELSE (CHOOSE k \in bad : \A j \in bad : k <= j) - 1
        a == SumOver([i \in 1..Len(mols) |-> AbsorptionTerm(mols[i], w)], 1, last)
        s == SumOver([i \in 1..Len(mols) |-> ScatteringTerm(mols[i], w)], 1, last)
        p == [props EXCEPT !.absorption_per_cm = a, !.scattering_per_cm = s]
    IN  IF bad = {}
        THEN [ ok |-> TRUE, props |-> p,
               ca |-> [ca EXCEPT ![w] = a], cs |-> [cs EXCEPT ![w] = s],
               evaluated |-> last ]
        ELSE [ ok |-> FALSE, props |-> p, ca |-> ca, cs |-> cs,
               evaluated |-> last + 1 ]

\* The method without the cache test: every call runs the loop.
get_properties_ignoring_cache(mols, props, ca, cs, w) ==
    ComputedProperties(mols, props, ca, cs, w)

\* MolecularComposition.get_properties_for_wavelength on a composition with
\* molecule list mols, record props and cache arrays ca, cs:
\*   ok        FALSE when a spectrum lookup raised (IndexError)
\*   props     the record afterwards (the object that is returned when ok)
\*   ca, cs    the cache arrays afterwards
\*   evaluated the number of spectrum lookups the call made
get_properties_for_wavelength(mols, props, ca, cs, w) ==
    IF ca[w] # -1
    THEN [ ok |-> TRUE,
           props |-> [props EXCEPT !.absorption_per_cm = ca[w],
                                   !.scattering_per_cm = cs[w]],
           ca |-> ca, cs |-> cs, evaluated |-> 0 ]
    ELSE ComputedProperties(mols, props, ca, cs, w)

(***************************************************************************)
(* The inputs of the compositing pass                                      *)
(***************************************************************************)

\* The grid: x_dim_px = 1, y_dim_px = 2, z_dim_px = 1; a voxel is its y index.
\* An array of the grid's shape is a function on Voxels.
Voxels == {0, 1}

\* int((DIM_VOLUME_Y_MM / 2) / SPACING_MM), the y index of the audit slice.
MidPlane == 1

\* The keys of the dictionary create_empty_volumes returns.
VolumeKeys ==
    { "absorption_per_cm", "scattering_per_cm", "anisotropy", "gruneisen_parameter",
      "density", "speed_of_sound", "alpha_coefficient", "segmentation" }

\* Tags.DATA_FIELD_SEGMENTATION
DATA_FIELD_SEGMENTATION == "segmentation"

\* The label values; 0 is the value of an untouched label voxel.
SegmentationClasses ==
    [ GENERIC |-> 1, MUSCLE |-> 2, BLOOD |-> 3,
      ARTERY |-> 11, VEIN |-> 12, RANDOM_ARTERY |-> 13, RANDOM_VEIN |-> 14 ]

\* Spectra built by the constructor from two raw points each.
SpectrumWide == AbsorptionSpectrum("wide", <<1, 4>>, <<2, 8>>)

SpectrumFlat == AbsorptionSpectrum("flat", <<1, 4>>, <<3, 3>>)

SpectrumNarrow == AbsorptionSpectrum("narrow", <<1, 2>>, <<4, 6>>)

\* The wavelengths a cache array is indexed with in this model.
Wavelengths == 1..4

\* Tags.WAVELENGTH of the settings: 3 lies in SpectrumWide and SpectrumFlat
\* and above the maximum of SpectrumNarrow.
WavelengthSettings == {3}

\* The MolecularComposition objects: those of the settings' structures, an
\* object without molecules and one whose volume fractions sum to 2.
CompIds == {"muscle", "blood", "plain", "narrow", "empty", "dense"}

\* MolecularComposition.__init__: the segmentation_type of each object.
segmentation_type(c) ==
    CASE c = "muscle" -> Some(SegmentationClasses.MUSCLE)
      [] c = "blood"  -> Some(SegmentationClasses.BLOOD)
      [] c = "plain"  -> None
      [] c = "narrow" -> Some(SegmentationClasses.GENERIC)
      [] c = "empty"  -> None
      [] c = "dense"  -> Some(SegmentationClasses.GENERIC)

\* The molecule list each object is built with.
InitialMolecules(c) ==
    CASE c = "muscle" -> << Molecule(SpectrumWide, 5, 2, 4 * AnisotropyUnit, 1, 3, 7, 1) >>
      [] c = "blood"  -> << Molecule(SpectrumFlat, 3, 4, 2 * AnisotropyUnit, 1, 2, 6, 2),
                            Molecule(SpectrumWide, 2, 1, 3 * AnisotropyUnit, 2, 1, 5, 0) >>
      [] c = "plain"  -> << Molecule(SpectrumFlat, 4, 1, AnisotropyUnit, 1, 1, 1, 1) >>
      [] c = "narrow" -> << Molecule(SpectrumFlat, 2, 3, AnisotropyUnit, 1, 1, 1, 1),
                            Molecule(SpectrumNarrow, 3, 1, AnisotropyUnit, 1, 1, 1, 1) >>
      [] c = "empty"  -> << >>
      [] c = "dense"  -> << Molecule(SpectrumFlat, 5, 2, 4 * AnisotropyUnit, 1, 3, 7, 1),
                            Molecule(SpectrumWide, 5, 1, AnisotropyUnit, 2, 1, 5, 2) >>

\* structure.params[5] is a string (a sequence of tokens), or is missing
\* (params is shorter, or the structure has no params), or is a value the
\* `in` operator does not accept (a number).
Str(tokens) == [kind |-> "str", tokens |-> tokens]

Missing == [kind |-> "missing", tokens |-> << >>]

NotIterable == [kind |-> "not_iterable", tokens |-> << >>]

\* Python's `pat in text` on strings.
Contains(text, pat) ==
    \E i \in 1..(Len(text) - Len(pat) + 1) : SubSeq(text, i, i + Len(pat) - 1) = pat

(***************************************************************************)
(* create_simulation_volume: the steps of one loop iteration               *)
(***************************************************************************)

\* The chain without the tests on 'random'.
VesselOverrideIgnoringRandom(params5) ==
    IF params5.kind # "str"
    THEN [raised |-> TRUE, label |-> None]
    ELSE LET t == params5.tokens
             has(pat) == Contains(t, pat)
         IN  [ raised |-> FALSE,
               label |->
                   IF has(<<"artery">>)
                   THEN Some(SegmentationClasses.ARTERY)
                   ELSE IF has(<<"vein">>)
                   THEN Some(SegmentationClasses.VEIN)
                   ELSE None ]

\* The if/elif chain on structure.params[5] inside the try block:
\*   raised  an exception was raised (and swallowed by the bare except)
\*   label   Some(class) when a branch assigned the label, None otherwise
VesselOverride(params5) ==
    IF params5.kind # "str"
    THEN [raised |-> TRUE, label |-> None]
    ELSE LET t == params5.tokens
             has(pat) == Contains(t, pat)
         IN  [ raised |-> FALSE,
               label |->
                   IF has(<<"artery">>) /\ ~has(<<"random">>)
                   THEN Some(SegmentationClasses.ARTERY)
                   ELSE IF has(<<"vein">>) /\ ~has(<<"random">>)
                   THEN Some(SegmentationClasses.VEIN)
                   ELSE IF has(<<"random", "_", "artery">>)
                   THEN Some(SegmentationClasses.RANDOM_ARTERY)
                   ELSE IF has(<<"random", "_", "vein">>)
                   THEN Some(SegmentationClasses.RANDOM_VEIN)
                   ELSE None ]

\* structure_properties after the try block: the assignment goes into the
\* record get_properties_for_wavelength returned.
WithOverride(props, params5) ==
    LET o == VesselOverride(params5)
    IN  IF o.label # None THEN [props EXCEPT !.segmentation = o.label] ELSE props

\* The capacity test made on the structure's array instead of the global one.
MaskOfStructureBelow1(svf, g) == [v \in Voxels |-> svf[v] > 0 /\ svf[v] < One]

\* mask = (structure_volume_fractions > 0) & (global_volume_fractions < 1)
Mask(svf, g) == [v \in Voxels |-> svf[v] > 0 /\ g[v] < One]

\* The comparison written with < instead of <=.
SelectorStrictlyLessThan1(naive_v, mask_v) == naive_v < (IF mask_v THEN One ELSE 0)

\* `added_volume_fraction <= 1 & mask` parses as
\* added_volume_fraction <= (1 & mask): the bound is 1 inside the mask and 0
\* outside it.
SelectorNotMoreThan1(naive_v, mask_v) == naive_v <= (IF mask_v THEN One ELSE 0)

\* The structure's own fraction, not clipped to the remaining capacity.
ClipToNothing(g_v, svf_v) == svf_v

\* torch.min(torch.stack((1 - global, structure)), 0) at one voxel
ClipToRemaining(g_v, svf_v) == Min(One - g_v, svf_v)

\* The structure's own occupancy, neither replaced nor clipped.
AddedAtUnclipped(g_v, svf_v, mask_v) == svf_v

\* added_volume_fraction at one voxel after the two masked assignments
AddedAt(g_v, svf_v, mask_v) ==
    LET naive == g_v + svf_v
        first == IF SelectorNotMoreThan1(naive, mask_v) THEN svf_v ELSE naive
    IN  IF first > One THEN ClipToRemaining(g_v, svf_v) ELSE first

AddedVolumeFraction(svf, g) ==
    [v \in Voxels |-> AddedAt(g[v], svf[v], Mask(svf, g)[v])]

\* The comparison written with >= instead of >: the last of equals wins.
GreaterOrEqualToAnyAddedFraction(added_v, max_v) == added_v >= max_v

\* added_fraction_greater_than_any_added_fraction at one voxel
GreaterThanAnyAddedFraction(added_v, max_v) == added_v > max_v

\* An assignment in place of the +=.
AccumulateOverwriting(vol_v, added_v, prop) == added_v * prop

\* volumes[key][mask] += added_volume_fraction[mask] * structure_properties[key]
Accumulate(vol_v, added_v, prop) == vol_v + added_v * prop

\* The loop over the keys with the += made on the whole array, not on the
\* mask.
UpdatedVolumesUnmasked(vols, props, added, max_added, mask) ==
    [ key \in VolumeKeys |->
        IF key = DATA_FIELD_SEGMENTATION
        THEN IF props[key] = None
             THEN vols[key]
             ELSE [ v \in Voxels |->
                      IF GreaterThanAnyAddedFraction(added[v], max_added[v]) /\ mask[v]
                      THEN props[key][1]
                      ELSE vols[key][v] ]
        ELSE [ v \in Voxels |-> Accumulate(vols[key][v], added[v], props[key]) ] ]

\* The loop over volumes.keys() for one structure: the volumes afterwards.
\* The `is None` test comes first for every key; in the record of a
\* composition every other entry is a number (TissueProperties() starts
\* them at 0, update_internal_properties and get_properties_for_wavelength
\* add numbers), so the label is the only entry it can skip.
UpdatedVolumes(vols, props, added, max_added, mask) ==
    [ key \in VolumeKeys |->
        IF key = DATA_FIELD_SEGMENTATION
        THEN IF props[key] = None
             THEN vols[key]
             ELSE [ v \in Voxels |->
                      IF GreaterThanAnyAddedFraction(added[v], max_added[v]) /\ mask[v]
                      THEN props[key][1]
                      ELSE vols[key][v] ]
        ELSE [ v \in Voxels |->
                 IF mask[v] THEN Accumulate(vols[key][v], added[v], props[key])
                 ELSE vols[key][v] ] ]

\* The maximum raised without the test for a None label.
UpdatedMaxAddedAlsoUnlabelled(props, added, max_added, mask) ==
    [ v \in Voxels |->
        IF GreaterThanAnyAddedFraction(added[v], max_added[v]) /\ mask[v]
        THEN added[v]
        ELSE max_added[v] ]

\* The added fraction written at every voxel of the mask, larger or not.
UpdatedMaxAddedOverwriting(props, added, max_added, mask) ==
    IF props[DATA_FIELD_SEGMENTATION] = None
    THEN max_added
    ELSE [ v \in Voxels |-> IF mask[v] THEN added[v] ELSE max_added[v] ]

\* max_added_fractions after the loop over the keys
UpdatedMaxAdded(props, added, max_added, mask) ==
    IF props[DATA_FIELD_SEGMENTATION] = None
    THEN max_added
    ELSE [ v \in Voxels |->
             IF GreaterThanAnyAddedFraction(added[v], max_added[v]) /\ mask[v]
             THEN added[v]
             ELSE max_added[v] ]

\* The += made on the whole array, not on the masked voxels.
UpdatedGlobalUnmasked(g, added, mask) ==
    [v \in Voxels |-> g[v] + added[v]]

\* An assignment in place of the +=.
UpdatedGlobalOverwriting(g, added, mask) ==
    [v \in Voxels |-> IF mask[v] THEN added[v] ELSE g[v]]

\* global_volume_fractions[mask] += added_volume_fraction[mask]
UpdatedGlobal(g, added, mask) ==
    [v \in Voxels |-> IF mask[v] THEN g[v] + added[v] ELSE g[v]]

\* The record the caller wrote into as a copy of the composition's record:
\* the composition keeps what get_properties_for_wavelength left.
RecordOfCopy(returned_record, props) == returned_record

\* The composition's record after the try block.  structure_properties is
\* the object get_properties_for_wavelength returned, self.internal_properties
\* itself, so the label assignment is an assignment into the composition.
RecordAfterOverride(returned_record, props) == props

(***************************************************************************)
(* State                                                                   *)
(***************************************************************************)

VARIABLES
    structures,              \* priority_sorted_structures(...), in processing order
    wavelength,              \* global_settings[Tags.WAVELENGTH]
    runs_left,               \* calls of create_simulation_volume still to come
    molecules,               \* per composition object: its molecule list
    internal_properties,     \* per composition object: self.internal_properties
    cached_absorption,       \* per composition object: self.cached_absorption
    cached_scattering,       \* per composition object: self.cached_scattering
    pc,                      \* "idle", "loop", "returned" or "raised"
    n,                       \* the local n: structures processed so far
    volumes,                 \* the local volumes
    global_volume_fractions,
    max_added_fractions,
    added_volume_fraction,   \* as left by the last iteration
    structure_properties,    \* as left by the last iteration
    structures_filling,      \* the audit array, one slice per structure
    saved,                   \* what save_hdf5 received in this call, or None
    returned,                \* what this call returned, or None
    committed,               \* history: per processed structure, the increase
                             \* of global_volume_fractions at every voxel
    labels_used,             \* history: per processed structure, the value of
                             \* structure_properties[segmentation] it was
                             \* composited with
    results,                 \* history: the outcome of every finished call
    subject,                 \* the composition object a caller uses directly
    ops_left,                \* direct method calls on subject still to come
    history,                 \* history: the direct method calls on subject
    request,                 \* a constructor call, lookup or comparison a caller makes
    outcome,                 \* what that call gave, or None before it is made
    self_i,                  \* SPECTRAL_LIBRARY.i
    library_calls            \* history: the calls made on SPECTRAL_LIBRARY

vars ==
    << structures, wavelength, runs_left, molecules, internal_properties,
       cached_absorption, cached_scattering, pc, n, volumes,
       global_volume_fractions, max_added_fractions, added_volume_fraction,
       structure_properties, structures_filling, saved, returned, committed,
       labels_used, results, subject, ops_left, history, request, outcome,
       self_i, library_calls >>

compositionVars ==
    << molecules, internal_properties, cached_absorption, cached_scattering >>

passVars ==
    << volumes, global_volume_fractions, max_added_fractions,
       added_volume_fraction, structure_properties, structures_filling,
       committed, labels_used >>

directVars == << subject, ops_left, history >>

constructionVars == << request, outcome >>

libraryVars == << self_i, library_calls >>

\* SPECTRAL_LIBRARY as AbsorptionSpectrumLibrary.__init__ leaves it.
LibraryConstructed ==
    /\ self_i = Len(spectra)
    /\ library_calls = << >>

callVars == << structures, wavelength, runs_left, pc, n, saved, returned, results >>

Zeros == [v \in Voxels |-> 0]

\* The occupancy values of the model: 0, 0.4, 0.6 and 1.
OccupancyValues == {0, 2, 3, One}

Structure(geometrical_volume, composition, params5) ==
    [ geometrical_volume |-> geometrical_volume,
      composition |-> composition,
      params5 |-> params5 ]

\* A structure whose occupancy array has the shape (1, 1, 1) instead of the
\* grid's (1, 2, 1).
MismatchingStructure == Structure([v \in {0} |-> 3], "muscle", Missing)

\* A structure whose composition holds a spectrum that ends below wavelength 3.
NarrowStructure == Structure([v \in Voxels |-> 3], "narrow", Missing)

\* Structures without vessel metadata, of every occupancy array.
OccupancyStructures ==
    { Structure(gv, "muscle", Missing) : gv \in [Voxels -> OccupancyValues] }
    \cup { Structure(gv, "blood", Missing) :
               gv \in { a \in [Voxels -> OccupancyValues] : a[MidPlane] \in {0, 3} } }
    \cup { Structure([v \in Voxels |-> o], "plain", Missing) : o \in OccupancyValues }
    \cup { MismatchingStructure, NarrowStructure }

\* The values of params[5].
VesselTags ==
    { Missing, NotIterable,
      Str(<<"artery">>), Str(<<"vein">>),
      Str(<<"random", "_", "artery">>), Str(<<"random", "_", "vein">>),
      Str(<<"random", " ", "artery">>) }

\* Structures with every kind of vessel metadata, of two occupancy arrays.
TaggedStructures ==
    { Structure(gv, c, t) :
        gv \in { [v \in Voxels |-> 3], [v \in Voxels |-> IF v = 0 THEN 2 ELSE One] },
        c \in {"muscle", "plain"},
        t \in VesselTags }
    \cup { MismatchingStructure, NarrowStructure }

SeqsUpTo(S, k) == UNION { [1..m -> S] : m \in 0..k }

\* The state before the first call: every composition object is as its
\* constructor and update_internal_properties() left it.
InitWith(family, wavelengths, runs) ==
    /\ structures \in SeqsUpTo(family, MaxStructs)
    /\ wavelength \in wavelengths
    /\ runs_left = runs
    /\ molecules = [c \in CompIds |-> InitialMolecules(c)]
    /\ internal_properties =
           [c \in CompIds |-> update_internal_properties(InitialMolecules(c), segmentation_type(c))]
    /\ cached_absorption = [c \in CompIds |-> [w \in Wavelengths |-> -1]]
    /\ cached_scattering = [c \in CompIds |-> [w \in Wavelengths |-> -1]]
    /\ pc = "idle"
    /\ n = 0
    /\ volumes = [key \in VolumeKeys |-> Zeros]
    /\ global_volume_fractions = Zeros
    /\ max_added_fractions = Zeros
    /\ added_volume_fraction = Zeros
    /\ structure_properties = TissueProperties
    /\ structures_filling = << >>
    /\ saved = None
    /\ returned = None
    /\ committed = << >>
    /\ labels_used = << >>
    /\ results = << >>
    /\ subject = "empty"
    /\ ops_left = 0
    /\ history = << >>
    /\ request = None
    /\ outcome = None
    /\ LibraryConstructed

Init == InitWith(OccupancyStructures, WavelengthSettings, 1)

InitTagged == InitWith(TaggedStructures, WavelengthSettings, MaxRuns)

(***************************************************************************)
(* Actions                                                                 *)
(***************************************************************************)

\* The structure the loop is about to process.
Current == structures[n + 1]

\* structure.properties_for_wavelength(wavelength): the call on the
\* structure's composition object.
CurrentLookup ==
    LET c == Current.composition
    IN  get_properties_for_wavelength(molecules[c], internal_properties[c],
                                      cached_absorption[c], cached_scattering[c],
                                      wavelength)

\* A call of create_simulation_volume up to the loop: the empty volumes and
\* the zeroed working arrays.
Begin ==
    /\ pc \in {"idle", "returned", "raised"}
    /\ runs_left > 0
    /\ runs_left' = runs_left - 1
    /\ pc' = "loop"
    /\ n' = 0
    /\ volumes' = [key \in VolumeKeys |-> Zeros]
    /\ global_volume_fractions' = Zeros
    /\ max_added_fractions' = Zeros
    /\ structures_filling' = [i \in 1..Len(structures) |-> 0]
    /\ saved' = None
    /\ returned' = None
    /\ committed' = << >>
    /\ labels_used' = << >>
    /\ UNCHANGED << directVars, constructionVars, libraryVars >>
    /\ UNCHANGED << structures, wavelength, compositionVars, added_volume_fraction,
                    structure_properties, results >>

\* The exception caught inside the loop: the structure is skipped and the
\* loop goes on.
LookupFailureSwallowed ==
    /\ pc = "loop"
    /\ n < Len(structures)
    /\ \E lookup \in {CurrentLookup} :
         /\ ~lookup.ok
         /\ internal_properties' =
                [internal_properties EXCEPT ![Current.composition] = lookup.props]
    /\ n' = n + 1
    /\ committed' = Append(committed, Zeros)
    /\ labels_used' = Append(labels_used, None)
    /\ UNCHANGED << directVars, constructionVars, libraryVars >>
    /\ UNCHANGED << structures, wavelength, runs_left, molecules, cached_absorption,
                    cached_scattering, pc, volumes, global_volume_fractions,
                    max_added_fractions, added_volume_fraction, structure_properties,
                    structures_filling, saved, returned, results >>

\* properties_for_wavelength raises: the exception leaves the call.
LookupFailure ==
    /\ pc = "loop"
    /\ n < Len(structures)
    /\ \E lookup \in {CurrentLookup} :
         /\ ~lookup.ok
         /\ internal_properties' =
                [internal_properties EXCEPT ![Current.composition] = lookup.props]
    /\ pc' = "raised"
    /\ results' = Append(results, [kind |-> "LookupError", volumes |-> None])
    /\ UNCHANGED << directVars, constructionVars, libraryVars >>
    /\ UNCHANGED << structures, wavelength, runs_left, molecules, cached_absorption,
                    cached_scattering, n, passVars, saved, returned >>

\* The occupancy array has not the shape of the grid: the mask operations
\* raise, after the properties were fetched and the label override applied.
ShapeMismatch ==
    /\ pc = "loop"
    /\ n < Len(structures)
    /\ DOMAIN Current.geometrical_volume # Voxels
    /\ \E lookup \in {CurrentLookup} :
         /\ lookup.ok
         /\ \E props \in {WithOverride(lookup.props, Current.params5)} :
              /\ internal_properties' =
                       [internal_properties EXCEPT
                           ![Current.composition] = RecordAfterOverride(lookup.props, props)]
              /\ cached_absorption' = [cached_absorption EXCEPT ![Current.composition] = lookup.ca]
              /\ cached_scattering' = [cached_scattering EXCEPT ![Current.composition] = lookup.cs]
              /\ structure_properties' = props
    /\ pc' = "raised"
    /\ results' = Append(results, [kind |-> "ShapeError", volumes |-> None])
    /\ UNCHANGED << directVars, constructionVars, libraryVars >>
    /\ UNCHANGED << structures, wavelength, runs_left, molecules, n, volumes,
                    global_volume_fractions, max_added_fractions,
                    added_volume_fraction, structures_filling, committed,
                    labels_used, saved, returned >>

\* One iteration of the loop over the structures.
ProcessStructure ==
    /\ pc = "loop"
    /\ n < Len(structures)
    /\ DOMAIN Current.geometrical_volume = Voxels
    /\ \E lookup \in {CurrentLookup} :
         /\ lookup.ok
         /\ \E props \in {WithOverride(lookup.props, Current.params5)},
               added \in {AddedVolumeFraction(Current.geometrical_volume, global_volume_fractions)},
               mask \in {Mask(Current.geometrical_volume, global_volume_fractions)} :
              \E g2 \in {UpdatedGlobal(global_volume_fractions, added, mask)} :
                /\ internal_properties' =
                       [internal_properties EXCEPT
                           ![Current.composition] = RecordAfterOverride(lookup.props, props)]
                /\ cached_absorption' = [cached_absorption EXCEPT ![Current.composition] = lookup.ca]
                /\ cached_scattering' = [cached_scattering EXCEPT ![Current.composition] = lookup.cs]
                /\ structure_properties' = props
                /\ added_volume_fraction' = added
                /\ structures_filling' = [structures_filling EXCEPT ![n + 1] = added[MidPlane]]
                /\ volumes' = UpdatedVolumes(volumes, props, added, max_added_fractions, mask)
                /\ max_added_fractions' = UpdatedMaxAdded(props, added, max_added_fractions, mask)
                /\ global_volume_fractions' = g2
                /\ committed' = Append(committed, [v \in Voxels |-> g2[v] - global_volume_fractions[v]])
                /\ labels_used' = Append(labels_used, props[DATA_FIELD_SEGMENTATION])
    /\ n' = n + 1
    /\ UNCHANGED << directVars, constructionVars, libraryVars >>
    /\ UNCHANGED << structures, wavelength, runs_left, molecules, pc, saved,
                    returned, results >>

\* After the loop: the audit array is saved and the volumes are returned.
Finish ==
    /\ pc = "loop"
    /\ n = Len(structures)
    /\ saved' = Some(structures_filling)
    /\ returned' = Some(volumes)
    /\ pc' = "returned"
    /\ results' = Append(results, [kind |-> "returned", volumes |-> Some(volumes)])
    /\ UNCHANGED << directVars, constructionVars, libraryVars >>
    /\ UNCHANGED << structures, wavelength, runs_left, compositionVars, n, passVars >>

Next ==
    \/ Begin
    \/ LookupFailure
    \/ ShapeMismatch
    \/ ProcessStructure
    \/ Finish

Spec == Init /\ [][Next]_vars

SpecTagged == InitTagged /\ [][Next]_vars

(***************************************************************************)
(* Repeated passes over structures that share compositions                 *)
(***************************************************************************)

\* How many times a caller calls update_internal_properties() between the
\* passes at most.
MaxUpdates == 1

\* Structures of three compositions, with and without vessel metadata.
\* Occupancies: 0.6 everywhere, 0.4 and 1, or 0.6 and 0.
MixedStructures ==
    { Structure(gv, "muscle", t) :
        gv \in { [v \in Voxels |-> 3], [v \in Voxels |-> IF v = 0 THEN 2 ELSE One] },
        t \in {Missing, Str(<<"artery">>), Str(<<"random", " ", "artery">>)} }
    \cup { Structure([v \in Voxels |-> 3], "plain", t) : t \in {Missing, Str(<<"artery">>)} }
    \cup { Structure([v \in Voxels |-> IF v = 0 THEN 3 ELSE 0], "blood", Missing) }
    \cup { MismatchingStructure, NarrowStructure }

\* As InitWith, with a caller that may call update_internal_properties().
InitMixed ==
    /\ structures \in SeqsUpTo(MixedStructures, MaxStructs)
    /\ wavelength \in WavelengthSettings
    /\ runs_left = MaxRuns
    /\ molecules = [c \in CompIds |-> InitialMolecules(c)]
    /\ internal_properties =
           [c \in CompIds |-> update_internal_properties(InitialMolecules(c), segmentation_type(c))]
    /\ cached_absorption = [c \in CompIds |-> [w \in Wavelengths |-> -1]]
    /\ cached_scattering = [c \in CompIds |-> [w \in Wavelengths |-> -1]]
    /\ pc = "idle"
    /\ n = 0
    /\ volumes = [key \in VolumeKeys |-> Zeros]
    /\ global_volume_fractions = Zeros
    /\ max_added_fractions = Zeros
    /\ added_volume_fraction = Zeros
    /\ structure_properties = TissueProperties
    /\ structures_filling = << >>
    /\ saved = None
    /\ returned = None
    /\ committed = << >>
    /\ labels_used = << >>
    /\ results = << >>
    /\ subject = "empty"
    /\ ops_left = MaxUpdates
    /\ history = << >>
    /\ request = None
    /\ outcome = None
    /\ LibraryConstructed

\* Between two passes the caller calls update_internal_properties() on the
\* composition of one of the structures.
UpdateBetweenPasses ==
    /\ pc \in {"returned", "raised"}
    /\ runs_left > 0
    /\ ops_left > 0
    /\ \E k \in 1..Len(structures) :
         \E c \in {structures[k].composition} :
           internal_properties' =
               [internal_properties EXCEPT
                   ![c] = RebuiltRecord(@, molecules[c], segmentation_type(c))]
    /\ ops_left' = ops_left - 1
    /\ UNCHANGED << subject, history, molecules, cached_absorption, cached_scattering,
                    callVars, passVars, constructionVars,
                    libraryVars >>

NextMixed ==
    \/ Begin
    \/ LookupFailure
    \/ ShapeMismatch
    \/ ProcessStructure
    \/ Finish
    \/ UpdateBetweenPasses

SpecMixed == InitMixed /\ [][NextMixed]_vars

(***************************************************************************)
(* A MolecularComposition under direct calls                               *)
(***************************************************************************)

\* How many direct method calls a caller makes on the object at most.
MaxOps == 4

\* The molecules a caller appends; each has volume fraction 0.4.
ExtraMolecules ==
    { Molecule(SpectrumWide, 2, 3, 2 * AnisotropyUnit, 2, 4, 3, 1),
      Molecule(SpectrumNarrow, 2, 1, 3 * AnisotropyUnit, 1, 2, 5, 3) }

\* No call of create_simulation_volume is made or under way.
NoPass ==
    /\ structures = << >>
    /\ wavelength \in WavelengthSettings
    /\ runs_left = 0
    /\ pc = "idle"
    /\ n = 0
    /\ volumes = [key \in VolumeKeys |-> Zeros]
    /\ global_volume_fractions = Zeros
    /\ max_added_fractions = Zeros
    /\ added_volume_fraction = Zeros
    /\ structure_properties = TissueProperties
    /\ structures_filling = << >>
    /\ saved = None
    /\ returned = None
    /\ committed = << >>
    /\ labels_used = << >>
    /\ results = << >>

\* Every composition object as MolecularComposition.__init__ leaves it: its
\* molecules are appended, the record is a fresh TissueProperties() and both
\* cache arrays hold -1 in every slot.
Constructed ==
    /\ molecules = [c \in CompIds |-> InitialMolecules(c)]
    /\ internal_properties = [c \in CompIds |-> TissueProperties]
    /\ cached_absorption = [c \in CompIds |-> [w \in Wavelengths |-> -1]]
    /\ cached_scattering = [c \in CompIds |-> [w \in Wavelengths |-> -1]]

\* The state after the constructor of the object subject, before the
\* caller's first method call.
InitComposition ==
    /\ subject \in CompIds
    /\ ops_left = MaxOps
    /\ history = << >>
    /\ Constructed
    /\ NoPass
    /\ request = None
    /\ outcome = None
    /\ LibraryConstructed

\* One entry of history.
Call(op, w, lookup, mols) ==
    [ op |-> op, w |-> w, ok |-> lookup.ok,
      absorption |-> lookup.props.absorption_per_cm,
      scattering |-> lookup.props.scattering_per_cm,
      evaluated |-> lookup.evaluated,
      cached_before |-> lookup.cached_before,
      mols |-> mols ]

\* What an entry holds for a call that is no lookup.
NoLookup == [ok |-> TRUE, props |-> TissueProperties, evaluated |-> 0, cached_before |-> FALSE]

\* list.append(molecule) on the composition: the list grows, the record and
\* the caches are not touched.
AppendMolecule ==
    /\ ops_left > 0
    /\ \E m \in ExtraMolecules :
         /\ molecules' = [molecules EXCEPT ![subject] = Append(@, m)]
         /\ history' = Append(history, Call("append", 0, NoLookup, molecules'[subject]))
    /\ ops_left' = ops_left - 1
    /\ UNCHANGED << subject, internal_properties, cached_absorption, cached_scattering,
                    callVars, passVars, constructionVars,
                    libraryVars >>

\* del composition[k]: the list shrinks, the record and the caches are not
\* touched.
RemoveMolecule ==
    /\ ops_left > 0
    /\ \E k \in 1..Len(molecules[subject]) :
         /\ molecules' =
                [molecules EXCEPT
                    ![subject] = SubSeq(@, 1, k - 1) \o SubSeq(@, k + 1, Len(@))]
         /\ history' = Append(history, Call("remove", 0, NoLookup, molecules'[subject]))
    /\ ops_left' = ops_left - 1
    /\ UNCHANGED << subject, internal_properties, cached_absorption, cached_scattering,
                    callVars, passVars, constructionVars,
                    libraryVars >>

\* A caller writes a label into the record the composition returned, as the
\* compositing pass does for a structure tagged 'artery'.
OverrideLabel ==
    /\ ops_left > 0
    /\ \E props \in {WithOverride(internal_properties[subject], Str(<<"artery">>))} :
         internal_properties' =
             [internal_properties EXCEPT ![subject] = RecordAfterOverride(@, props)]
    /\ history' = Append(history, Call("override", 0, NoLookup, molecules[subject]))
    /\ ops_left' = ops_left - 1
    /\ UNCHANGED << subject, molecules, cached_absorption, cached_scattering,
                    callVars, passVars, constructionVars,
                    libraryVars >>

\* update_internal_properties() that also puts both cache arrays back to -1.
UpdateClearingCaches ==
    /\ ops_left > 0
    /\ internal_properties' =
           [internal_properties EXCEPT
               ![subject] = RebuiltRecord(@, molecules[subject], segmentation_type(subject))]
    /\ cached_absorption' = [cached_absorption EXCEPT ![subject] = [w \in Wavelengths |-> -1]]
    /\ cached_scattering' = [cached_scattering EXCEPT ![subject] = [w \in Wavelengths |-> -1]]
    /\ history' = Append(history, Call("update", 0, NoLookup, molecules[subject]))
    /\ ops_left' = ops_left - 1
    /\ UNCHANGED << subject, molecules, callVars, passVars, constructionVars,
                    libraryVars >>

\* composition.update_internal_properties()
UpdateInternalProperties ==
    /\ ops_left > 0
    /\ internal_properties' =
           [internal_properties EXCEPT
               ![subject] = RebuiltRecord(@, molecules[subject], segmentation_type(subject))]
    /\ history' = Append(history, Call("update", 0, NoLookup, molecules[subject]))
    /\ ops_left' = ops_left - 1
    /\ UNCHANGED << subject, molecules, cached_absorption, cached_scattering,
                    callVars, passVars, constructionVars,
                    libraryVars >>

\* composition.get_properties_for_wavelength(w): the call returns the record
\* (ok) or leaves with the IndexError of a spectrum lookup.
GetPropertiesForWavelength ==
    /\ ops_left > 0
    /\ \E w \in Wavelengths :
         \E lookup \in {get_properties_for_wavelength(
                            molecules[subject], internal_properties[subject],
                            cached_absorption[subject], cached_scattering[subject], w)} :
           /\ internal_properties' = [internal_properties EXCEPT ![subject] = lookup.props]
           /\ cached_absorption' = [cached_absorption EXCEPT ![subject] = lookup.ca]
           /\ cached_scattering' = [cached_scattering EXCEPT ![subject] = lookup.cs]
           /\ history' =
                  Append(history,
                         Call("get", w,
                              [ ok |-> lookup.ok, props |-> lookup.props,
                                evaluated |-> lookup.evaluated,
                                cached_before |-> cached_absorption[subject][w] # -1 ],
                              molecules[subject]))
    /\ ops_left' = ops_left - 1
    /\ UNCHANGED << subject, molecules, callVars, passVars, constructionVars,
                    libraryVars >>

NextComposition ==
    \/ AppendMolecule
    \/ RemoveMolecule
    \/ OverrideLabel
    \/ UpdateInternalProperties
    \/ GetPropertiesForWavelength

SpecComposition == InitComposition /\ [][NextComposition]_vars

(***************************************************************************)
(* Constructor calls and comparisons                                       *)
(***************************************************************************)

\* How many raw points a spectrum is built from at most.
MaxPoints == 3

\* The raw absorption values of the model; every gap between two raw
\* wavelengths of 1..4 divides their differences.
RawAbsorptions == {0, 6, 12}

\* The strictly ascending wavelength arrays over 1..4, the empty one included.
AscendingWavelengths ==
    { s \in SeqsUpTo(Wavelengths, MaxPoints) :
          \A i \in 1..(Len(s) - 1) : s[i] < s[i + 1] }

\* AbsorptionSpectrum(name, wavelengths, absorption_per_centimeter)
SpectrumRequests ==
    { [kind |-> "spectrum", name |-> "raw", wavelengths |-> w, absorption |-> a] :
          w \in AscendingWavelengths, a \in SeqsUpTo(RawAbsorptions, MaxPoints) }

\* AbsorptionSpectrumLibrary.CONSTANT_ABSORBER_ARBITRARY(c)
ConstantAbsorberRequests ==
    { [kind |-> "spectrum", name |-> "Constant Absorber (1)",
       wavelengths |-> <<450, 1000>>, absorption |-> <<c, c>>] : c \in {1, 7, 10} }

\* The spectrum objects that are compared.
ComparedSpectra ==
    { AbsorptionSpectrum(nm, w, a) :
          nm \in {"a", "b"},
          w \in {<<1, 4>>, <<1, 2>>},
          a \in {<<6, 6>>, <<6, 12>>} }
    \cup { AbsorptionSpectrum(nm, <<1, 2, 4>>, <<6, 6, 6>>) : nm \in {"a", "b"} }

\* self == other
EqRequests ==
    { [kind |-> "eq", self |-> x, other |-> y] :
          x \in ComparedSpectra, y \in ComparedSpectra \cup {[text |-> "a"]} }

\* The integers a caller passes as wavelength: inside, below and above the
\* range of every spectrum of LookupRequests.
LookupWavelengths == -5..9

\* spectrum.get_absorption_for_wavelength(w) on a spectrum built before
LookupRequests ==
    { [kind |-> "lookup", self |-> sp, w |-> w] :
          sp \in { AbsorptionSpectrum("raw", <<1, 4>>, <<0, 12>>),
                   AbsorptionSpectrum("raw", <<1, 3, 4>>, <<0, 12, 6>>),
                   AbsorptionSpectrum("raw", <<2, 3>>, <<6, 12>>),
                   AbsorptionSpectrum("raw", <<3>>, <<6>>) },
          w \in LookupWavelengths }

\* The numeric fields of Molecule.__init__, in the order of its checks.
MoleculeFields ==
    << "volume_fraction", "mus500", "f_ray", "b_mie", "anisotropy",
       "gruneisen_parameter", "density", "speed_of_sound", "alpha_coefficient" >>

\* An argument: left unset (None), a float, an int, or a string.
Unset == [type |-> "none", value |-> 0]

Float(x) == [type |-> "float", value |-> x]

Integer(x) == [type |-> "int", value |-> x]

Text == [type |-> "str", value |-> 0]

\* The default a field takes when it is None, as a numerator over One
\* (the 1e-20 of mus500 is below that resolution).
DefaultOf(field) == IF field = "gruneisen_parameter" THEN Float(One) ELSE Float(0)

\* SPECTRAL_LIBRARY.CONSTANT_ABSORBER_ZERO (1e-10 is below the resolution)
CONSTANT_ABSORBER_ZERO == AbsorptionSpectrum("Constant Absorber (0)", <<450, 1000>>, <<0, 0>>)

\* isinstance(x, float) is false of an int as well as of a string.
IsFloatInstance(arg) == arg.type = "float"

\* Molecule(spectrum=..., volume_fraction=..., ...): spectrum is None, a
\* spectrum object or something else; args gives every numeric field its
\* argument.  The first field, in the order of the checks, whose argument is
\* neither None nor a float raises TypeError.
NewMolecule(spectrum, args) ==
    LET sp == IF spectrum = None THEN CONSTANT_ABSORBER_ZERO ELSE spectrum[1]
        arg(f) == IF args[f].type = "none" THEN DefaultOf(f) ELSE args[f]
        bad == {i \in 1..Len(MoleculeFields) : ~IsFloatInstance(arg(MoleculeFields[i]))}
    IN  IF ~IsAbsorptionSpectrum(sp)
        THEN [ok |-> FALSE, error |-> "TypeError", field |-> "spectrum", molecule |-> None]
        ELSE IF bad # {}
        THEN [ ok |-> FALSE, error |-> "TypeError",
               field |-> MoleculeFields[CHOOSE i \in bad : \A j \in bad : i <= j],
               molecule |-> None ]
        ELSE [ ok |-> TRUE, error |-> "", field |-> "",
               molecule |->
                   Some([ spectrum |-> sp,
                          volume_fraction |-> arg("volume_fraction").value,
                          mus500 |-> arg("mus500").value,
                          f_ray |-> arg("f_ray").value,
                          b_mie |-> arg("b_mie").value,
                          anisotropy |-> arg("anisotropy").value,
                          gruneisen_parameter |-> arg("gruneisen_parameter").value,
                          density |-> arg("density").value,
                          speed_of_sound |-> arg("speed_of_sound").value,
                          alpha_coefficient |-> arg("alpha_coefficient").value ]) ]

\* How many arguments of a Molecule call are not floats at most.
MaxOddArguments == 2

FieldNames == {MoleculeFields[i] : i \in 1..Len(MoleculeFields)}

\* Molecule(...) calls: every field a float but for at most MaxOddArguments
\* fields, which are unset, an int or a string.
MoleculeRequests ==
    { [kind |-> "molecule", spectrum |-> sp, args |-> a] :
          sp \in {None, Some(SpectrumFlat), Some([text |-> "a"])},
          a \in { f \in [FieldNames -> {Float(2), Unset, Integer(2), Text}] :
                      Cardinality({x \in FieldNames : f[x] # Float(2)}) <= MaxOddArguments } }

\* The state before a caller's constructor call or comparison.
InitLibrary ==
    /\ request \in SpectrumRequests \cup ConstantAbsorberRequests
                     \cup EqRequests \cup MoleculeRequests \cup LookupRequests
    /\ outcome = None
    /\ subject = "empty"
    /\ ops_left = 0
    /\ history = << >>
    /\ Constructed
    /\ NoPass
    /\ LibraryConstructed

\* AbsorptionSpectrum(name, wavelengths, absorption_per_centimeter)
ConstructSpectrum ==
    /\ outcome = None
    /\ request.kind = "spectrum"
    /\ outcome' = Some(NewAbsorptionSpectrum(request.name, request.wavelengths,
                                             request.absorption))
    /\ UNCHANGED << request, directVars, compositionVars, callVars, passVars,
                    libraryVars >>

\* spectrum.get_absorption_for_wavelength(w)
LookupAbsorption ==
    /\ outcome = None
    /\ request.kind = "lookup"
    /\ outcome' = Some(get_absorption_for_wavelength(request.self, request.w))
    /\ UNCHANGED << request, directVars, compositionVars, callVars, passVars,
                    libraryVars >>

\* self == other, under either numpy
CompareSpectra ==
    /\ outcome = None
    /\ request.kind = "eq"
    /\ \E shape_mismatch_raises \in BOOLEAN :
           outcome' = Some(__eq__(request.self, request.other, shape_mismatch_raises))
    /\ UNCHANGED << request, directVars, compositionVars, callVars, passVars,
                    libraryVars >>

\* Molecule(spectrum=..., ...)
ConstructMolecule ==
    /\ outcome = None
    /\ request.kind = "molecule"
    /\ outcome' = Some(NewMolecule(request.spectrum, request.args))
    /\ UNCHANGED << request, directVars, compositionVars, callVars, passVars,
                    libraryVars >>

NextLibrary ==
    \/ ConstructSpectrum
    \/ LookupAbsorption
    \/ CompareSpectra
    \/ ConstructMolecule

SpecLibrary == InitLibrary /\ [][NextLibrary]_vars

(***************************************************************************)
(* The shared SPECTRAL_LIBRARY under calls                                 *)
(***************************************************************************)

\* How many calls are made on SPECTRAL_LIBRARY at most.
MaxCalls == 3

\* The names a caller asks for: the ten of the library and one it has not.
RequestedNames == { SpectraNames[k] : k \in 1..Len(SpectraNames) } \cup { "Unknown" }

InitSharedLibrary ==
    /\ LibraryConstructed
    /\ request = None
    /\ outcome = None
    /\ subject = "empty"
    /\ ops_left = 0
    /\ history = << >>
    /\ Constructed
    /\ NoPass

\* SPECTRAL_LIBRARY.get_spectrum_by_name(spectrum_name)
GetSpectrumByName ==
    /\ Len(library_calls) < MaxCalls
    /\ \E spectrum_name \in RequestedNames :
         \E call \in {get_spectrum_by_name(self_i, spectrum_name)} :
           /\ self_i' = call.i
           /\ library_calls' =
                  Append(library_calls,
                         [ op |-> "get_spectrum_by_name", spectrum_name |-> spectrum_name,
                           ok |-> call.ok, value |-> call.value ])
    /\ UNCHANGED << constructionVars, directVars, compositionVars, callVars, passVars >>

\* SPECTRAL_LIBRARY.get_spectra_names()
GetSpectraNames ==
    /\ Len(library_calls) < MaxCalls
    /\ \E call \in {get_spectra_names(self_i)} :
           /\ self_i' = call.i
           /\ library_calls' =
                  Append(library_calls,
                         [ op |-> "get_spectra_names", spectrum_name |-> "",
                           ok |-> call.ok, value |-> call.value ])
    /\ UNCHANGED << constructionVars, directVars, compositionVars, callVars, passVars >>

\* next(SPECTRAL_LIBRARY): one step of a loop over the library that the
\* caller may leave early.
NextSpectrum ==
    /\ Len(library_calls) < MaxCalls
    /\ \E call \in {__next__(self_i)} :
           /\ self_i' = call.i
           /\ library_calls' =
                  Append(library_calls,
                         [ op |-> "__next__", spectrum_name |-> "",
                           ok |-> ~call.stopped, value |-> call.spectrum ])
    /\ UNCHANGED << constructionVars, directVars, compositionVars, callVars, passVars >>

\* `for spectrum in SPECTRAL_LIBRARY` run to its end, as
\* view_absorption_spectra does.
IterateLibrary ==
    /\ Len(library_calls) < MaxCalls
    /\ \E loop \in {ForSpectrumInSelf(self_i, << >>)} :
           /\ self_i' = loop.i
           /\ library_calls' =
                  Append(library_calls,
                         [ op |-> "for", spectrum_name |-> "",
                           ok |-> TRUE, value |-> loop.visited ])
    /\ UNCHANGED << constructionVars, directVars, compositionVars, callVars, passVars >>

NextSharedLibrary ==
    \/ GetSpectrumByName
    \/ GetSpectraNames
    \/ NextSpectrum
    \/ IterateLibrary

SpecSharedLibrary == InitSharedLibrary /\ [][NextSharedLibrary]_vars

(***************************************************************************)
(* Properties of the compositing pass                                      *)
(***************************************************************************)

\* The structures processed so far in this call.
Processed == 1..n

\* The sum of the occupancies of the processed structures at voxel v.
OccupancySum(v) ==
    SumOver([i \in Processed |-> structures[i].geometrical_volume[v]], 1, n)

\* The sum of the fractions committed by the processed structures at voxel v.
CommittedSum(v) == SumOver([i \in Processed |-> committed[i][v]], 1, n)

\* The property values of a composition object at the run's wavelength: what
\* get_properties_for_wavelength returns for it on an up-to-date record and
\* an empty cache.
PropertiesOf(c) ==
    get_properties_for_wavelength(
        molecules[c],
        update_internal_properties(molecules[c], segmentation_type(c)),
        [w \in Wavelengths |-> -1], [w \in Wavelengths |-> -1],
        wavelength).props

NonLabelKeys == VolumeKeys \ {DATA_FIELD_SEGMENTATION}

\* C1: at every voxel and after every processed structure (hence also after
\* the full pass) the running global occupancy lies in [0, 1], whatever the
\* number of structures and the sum of their occupancies.
C1_GlobalOccupancyWithinUnit ==
    \A v \in Voxels :
        0 <= global_volume_fractions[v] /\ global_volume_fractions[v] <= One

\* Witness of C1: a finished pass in which the occupancies at a voxel sum to
\* 2 or more and the global occupancy there is 1.
C1_Witness ==
    /\ pc = "returned"
    /\ n >= 2
    /\ \E v \in Voxels :
           OccupancySum(v) >= 2 * One /\ global_volume_fractions[v] = One

\* C2: for the structure just processed and every voxel that was eligible
\* (occupancy occ > 0 and global occupancy g < 1 before the structure), the
\* committed fraction is occ when g + occ <= 1 and min(1 - g, occ) when
\* g + occ > 1, with g the value the earlier structures left; it is
\* positive, at most occ and at most the remaining capacity 1 - g.
C2_CommittedFraction ==
    n >= 1 =>
        \A v \in Voxels :
            LET occ == structures[n].geometrical_volume[v]
                g == global_volume_fractions[v] - committed[n][v]
                added == added_volume_fraction[v]
            IN  (occ > 0 /\ g < One) =>
                    /\ added = (IF g + occ <= One THEN occ ELSE Min(One - g, occ))
                    /\ committed[n][v] = added
                    /\ added > 0
                    /\ added <= occ
                    /\ added <= One - g

\* Witness of C2: the second structure meets a partly filled voxel that its
\* occupancy overfills (g + occ > 1); it commits the remaining capacity,
\* which is less than its occupancy.
C2_Witness ==
    /\ n = 2
    /\ \E v \in Voxels :
           LET occ == structures[2].geometrical_volume[v]
               g == committed[1][v]
           IN  /\ g > 0
               /\ g + occ > One
               /\ committed[2][v] = One - g
               /\ committed[2][v] < occ

\* C3: after each processed structure every non-label field holds, at every
\* voxel, the sum over the processed structures of committed fraction times
\* property value; nothing is normalized, so after the pass a voxel whose
\* occupancies sum to s <= 1 holds the plain sum of occ_i * prop_i.
C3_WeightedSumNoNormalization ==
    \A prop \in {[i \in Processed |-> PropertiesOf(structures[i].composition)]} :
        \A key \in NonLabelKeys : \A v \in Voxels :
            /\ volumes[key][v] =
                   SumOver([i \in Processed |-> committed[i][v] * prop[i][key]], 1, n)
            /\ (pc = "returned" /\ OccupancySum(v) <= One) =>
                   volumes[key][v] =
                       SumOver([i \in Processed |->
                                    structures[i].geometrical_volume[v] * prop[i][key]],
                               1, n)

\* Witness of C3: a finished pass in which two structures of different
\* compositions share a voxel whose occupancies sum to less than 1.
C3_Witness ==
    /\ pc = "returned"
    /\ n = 2
    /\ structures[1].composition # structures[2].composition
    /\ \E v \in Voxels :
           /\ committed[1][v] > 0
           /\ committed[2][v] > 0
           /\ OccupancySum(v) < One
           /\ volumes["absorption_per_cm"][v] > 0

\* The label a structure carries by itself: the override its vessel tag
\* gives, else the segmentation_type of its composition (None if unset).
StructureLabel(s) ==
    IF VesselOverride(s.params5).label # None
    THEN VesselOverride(s.params5).label
    ELSE segmentation_type(s.composition)

\* The processed structures that carried a label and committed a positive
\* fraction at voxel v.
LabelledContributors(v) ==
    {i \in Processed : labels_used[i] # None /\ committed[i][v] > 0}

\* The earliest-processed of those that committed the largest fraction at v.
EarliestLargest(v) ==
    CHOOSE i \in LabelledContributors(v) :
        \A j \in LabelledContributors(v) :
            \/ committed[j][v] < committed[i][v]
            \/ (committed[j][v] = committed[i][v] /\ i <= j)

\* C4: after the pass, at every voxel where a labelled structure committed
\* a positive fraction, the segmentation label is the label of the
\* earliest-processed structure among those that committed the largest
\* fraction there; a later structure with a smaller or an equal committed
\* fraction never takes the label.
C4_LabelOfEarliestLargest ==
    pc = "returned" =>
        \A v \in Voxels :
            LabelledContributors(v) # {} =>
                volumes[DATA_FIELD_SEGMENTATION][v] = labels_used[EarliestLargest(v)][1]

\* Witness of C4: the spec's scenario.  A then B, of different labels, both
\* with occupancy 0.6 at a voxel: A commits 0.6, B commits 0.4 and the
\* label is A's; and at the other voxel both commit the same fraction and
\* the label is A's as well.
C4_Witness ==
    /\ pc = "returned"
    /\ n = 2
    /\ labels_used[1] # None /\ labels_used[2] # None
    /\ labels_used[1] # labels_used[2]
    /\ labels_used[1] = StructureLabel(structures[1])
    /\ labels_used[2] = StructureLabel(structures[2])
    /\ structures[1].geometrical_volume[1] = 3
    /\ structures[2].geometrical_volume[1] = 3
    /\ committed[1][1] = 3 /\ committed[2][1] = 2
    /\ volumes[DATA_FIELD_SEGMENTATION][1] = labels_used[1][1]
    /\ committed[1][0] > 0 /\ committed[2][0] = committed[1][0]
    /\ volumes[DATA_FIELD_SEGMENTATION][0] = labels_used[1][1]

\* C5: when the pass processes exactly one structure and its occupancy is 1
\* at every voxel, every non-label field equals the structure's property
\* value at every voxel (a field is held over One, as the fractions are) and
\* the label equals the structure's segmentation tag at every voxel.  A
\* structure without any tag (None) has no label to compare.
C5_SingleFullCoverage ==
    ( /\ pc = "returned"
      /\ Len(structures) = 1
      /\ \A v \in Voxels : structures[1].geometrical_volume[v] = One )
    => \A prop \in {PropertiesOf(structures[1].composition)} :
           \A v \in Voxels :
               /\ \A key \in NonLabelKeys : volumes[key][v] = One * prop[key]
               /\ StructureLabel(structures[1]) # None =>
                      volumes[DATA_FIELD_SEGMENTATION][v] = StructureLabel(structures[1])[1]

\* Witness of C5: a finished pass over one labelled full-coverage structure
\* whose absorption is not 0.
C5_Witness ==
    /\ pc = "returned"
    /\ Len(structures) = 1
    /\ \A v \in Voxels : structures[1].geometrical_volume[v] = One
    /\ StructureLabel(structures[1]) # None
    /\ \A v \in Voxels :
           /\ volumes["absorption_per_cm"][v] > 0
           /\ volumes[DATA_FIELD_SEGMENTATION][v] = StructureLabel(structures[1])[1]

\* The structure list holds a full-coverage background structure.
HasBackground ==
    \E i \in 1..Len(structures) :
        /\ DOMAIN structures[i].geometrical_volume = Voxels
        /\ \A v \in Voxels : structures[i].geometrical_volume[v] = One

\* C6: if the processed list holds a full-coverage background structure
\* (occupancy 1 at every voxel), then after the pass the global occupancy is
\* exactly 1 at every voxel and the committed fractions of all structures
\* sum to 1 there, wherever the background stands in the processing order.
C6_BackgroundFillsVolume ==
    (pc = "returned" /\ HasBackground) =>
        \A v \in Voxels : global_volume_fractions[v] = One /\ CommittedSum(v) = One

\* Witness of C6: the background is processed second, after a structure
\* that filled a voxel partly, and the pass is finished.
C6_Witness ==
    /\ pc = "returned"
    /\ n = 2
    /\ \A v \in Voxels : structures[2].geometrical_volume[v] = One
    /\ \E v \in Voxels : committed[1][v] > 0 /\ committed[1][v] < One
    /\ \A v \in Voxels : global_volume_fractions[v] = One

\* C7 (as claimed): two runs of create_simulation_volume on the same
\* structure list, occupancy arrays and wavelength return identical arrays
\* for every field, the label included, whatever the first run left in the
\* composition objects (caches, label overrides), also when structures
\* share one composition.
C7_RepeatedRunsAgree ==
    \A i \in DOMAIN results : \A j \in DOMAIN results : results[i] = results[j]

\* Structure i of the list meets a lookup failure in properties_for_wavelength.
LookupFailsAt(i) ==
    LET c == structures[i].composition
    IN  ~get_properties_for_wavelength(molecules[c], internal_properties[c],
                                       cached_absorption[c], cached_scattering[c],
                                       wavelength).ok

\* C8: if properties_for_wavelength fails with a lookup failure for a
\* structure of the list, the failure leaves create_simulation_volume: the
\* loop never gets past that structure (neither it nor the structures after
\* it are processed, the call is not resumed), no volume is returned, not
\* even a partial one, and the audit array is not saved.
C8_LookupFailurePropagates ==
    \A i \in 1..Len(structures) :
        (pc # "idle" /\ LookupFailsAt(i)) =>
            /\ n < i
            /\ Len(committed) < i
            /\ pc # "returned"
            /\ returned = None
            /\ saved = None
            /\ pc = "raised" => results[Len(results)].volumes = None

\* Witness of C8: the first of two structures met the lookup failure after
\* the call began; the second one, which has no defect, was not processed.
C8_Witness ==
    /\ pc = "raised"
    /\ results[Len(results)].kind = "LookupError"
    /\ Len(structures) = 2
    /\ n = 0
    /\ LookupFailsAt(1)
    /\ ~LookupFailsAt(2)
    /\ DOMAIN structures[2].geometrical_volume = Voxels
    /\ returned = None /\ saved = None

\* Structure i has no usable vessel-kind metadata.
NoVesselMetadata(i) == structures[i].params5.kind # "str"

\* C9 (as claimed): a structure whose params[5] is missing or malformed
\* never aborts the pass (a call only ends in an error at a structure whose
\* lookup fails or whose array has the wrong shape), and it is composited
\* with the segmentation tag of its own composition as its label.
C9_MissingMetadataFallsBackToOwnTag ==
    /\ pc = "raised" =>
           \/ LookupFailsAt(n + 1)
           \/ DOMAIN structures[n + 1].geometrical_volume # Voxels
    /\ \A i \in 1..Len(labels_used) :
           NoVesselMetadata(i) =>
               labels_used[i] = segmentation_type(structures[i].composition)

\* The structure list holds a structure whose array has not the grid's shape.
HasShapeMismatch ==
    \E i \in 1..Len(structures) : DOMAIN structures[i].geometrical_volume # Voxels

\* C10 (as claimed): when the occupancy array of any structure of the list
\* has not the dimensions of the grid, the call fails with an error before
\* any structure's contribution has been accumulated into any output field
\* or into the global occupancy, wherever the mismatching structure stands.
C10_ShapeMismatchBeforeAccumulation ==
    /\ HasShapeMismatch => pc # "returned"
    /\ (pc = "raised" /\ results[Len(results)].kind = "ShapeError") =>
           /\ global_volume_fractions = Zeros
           /\ \A key \in VolumeKeys : volumes[key] = Zeros

\* C19 (as claimed): for the structure just processed the added-fraction
\* array is 0 at every voxel that was not eligible (occupancy 0, or global
\* occupancy already 1), and the audit slice recorded for every processed
\* structure equals the fraction that structure committed to the global
\* occupancy at the mid-plane voxel.
C19_AuditSliceIsCommitted ==
    /\ n >= 1 =>
           \A v \in Voxels :
               LET occ == structures[n].geometrical_volume[v]
                   g == global_volume_fractions[v] - committed[n][v]
               IN  ~(occ > 0 /\ g < One) => added_volume_fraction[v] = 0
    /\ \A i \in Processed : structures_filling[i] = committed[i][MidPlane]

\* The first structure of the list has occupancy 1 at every voxel.
FirstFillsVolume ==
    /\ Len(structures) >= 1
    /\ DOMAIN structures[1].geometrical_volume = Voxels
    /\ \A v \in Voxels : structures[1].geometrical_volume[v] = One

\* What a pass over the first structure alone returns at every voxel.
OutputOfFirstAlone ==
    [ key \in VolumeKeys |->
        IF key = DATA_FIELD_SEGMENTATION
        THEN IF StructureLabel(structures[1]) = None
             THEN 0
             ELSE StructureLabel(structures[1])[1]
        ELSE One * PropertiesOf(structures[1].composition)[key] ]

\* The step of one loop iteration leaves a voxel whose global occupancy is 1
\* as it is: every output field, the label, max_added_fractions and the
\* global occupancy.
FullVoxelsUntouched ==
    (pc = "loop" /\ n' = n + 1) =>
        \A v \in Voxels :
            global_volume_fractions[v] = One =>
                /\ \A key \in VolumeKeys : volumes'[key][v] = volumes[key][v]
                /\ max_added_fractions'[v] = max_added_fractions[v]
                /\ global_volume_fractions'[v] = global_volume_fractions[v]

\* When the first structure fills the volume, every later structure
\* committed 0 everywhere, and the returned output is that of the first
\* structure alone.
LaterStructuresAddNothing ==
    FirstFillsVolume =>
        /\ \A i \in Processed : i >= 2 => committed[i] = Zeros
        /\ pc = "returned" =>
               \A out \in {OutputOfFirstAlone} :
                   \A key \in VolumeKeys : \A v \in Voxels : volumes[key][v] = out[key]

\* C20: once the global occupancy is 1 at a voxel, no structure processed
\* later changes an output field, the label, max_contribution or the global
\* occupancy there; when the first processed structure has occupancy 1
\* everywhere, every later structure commits 0 everywhere and the output is
\* the output of the first structure alone.
C20_FullVoxelsAreFrozen ==
    /\ [][FullVoxelsUntouched]_vars
    /\ []LaterStructuresAddNothing

\* Witness of C20: a finished pass of two structures of different
\* compositions; the first has occupancy 1 everywhere, the second has a
\* positive occupancy at a voxel and committed nothing, and the absorption
\* field is the first structure's.
C20_Witness ==
    /\ pc = "returned"
    /\ n = 2
    /\ FirstFillsVolume
    /\ structures[1].composition # structures[2].composition
    /\ \E v \in Voxels : structures[2].geometrical_volume[v] > 0
    /\ committed[2] = Zeros
    /\ \A v \in Voxels :
           /\ volumes["absorption_per_cm"][v] > 0
           /\ volumes["absorption_per_cm"][v]
                  = One * PropertiesOf(structures[1].composition).absorption_per_cm

\* One loop iteration as a function of the working arrays acc and of the
\* structure s, whose composition returns its property values at the run's
\* wavelength.
CompositeStep(acc, s) ==
    LET props == WithOverride(PropertiesOf(s.composition), s.params5)
        mask == Mask(s.geometrical_volume, acc.global_volume_fractions)
        added == AddedVolumeFraction(s.geometrical_volume, acc.global_volume_fractions)
    IN  [ volumes |-> UpdatedVolumes(acc.volumes, props, added, acc.max_added_fractions, mask),
          max_added_fractions |-> UpdatedMaxAdded(props, added, acc.max_added_fractions, mask),
          global_volume_fractions |-> UpdatedGlobal(acc.global_volume_fractions, added, mask) ]

RECURSIVE PassOver(_, _)
\* The working arrays after the loop has processed the first k structures of
\* the list structs, all of the grid's shape and without lookup failure.
PassOver(structs, k) ==
    IF k = 0
    THEN [ volumes |-> [key \in VolumeKeys |-> Zeros],
           max_added_fractions |-> Zeros,
           global_volume_fractions |-> Zeros ]
    ELSE CompositeStep(PassOver(structs, k - 1), structs[k])

\* The orders a list of k structures can be processed in.
ProcessingOrders(k) ==
    { p \in [1..k -> 1..k] : \A i \in 1..k : \A j \in 1..k : p[i] = p[j] => i = j }

Permuted(structs, p) == [i \in 1..Len(structs) |-> structs[p[i]]]

\* C21: the output depends on the processing order.  Whenever a finished
\* pass processed two structures, the same two structures processed in the
\* other order give a different value of a non-label field at every voxel
\* where their occupancies sum to more than 1 and their values of that
\* property differ; such structures exist (the witness).  The pass as a
\* function of the list gives what the call returned.
C21_OrderChangesOutput ==
    (pc = "returned" /\ n = 2) =>
        \A ab \in {PassOver(structures, 2)},
           ba \in {PassOver(<<structures[2], structures[1]>>, 2)},
           p1 \in {PropertiesOf(structures[1].composition)},
           p2 \in {PropertiesOf(structures[2].composition)} :
            \A key \in NonLabelKeys :
                /\ volumes[key] = ab.volumes[key]
                /\ \A v \in Voxels :
                       ( /\ structures[1].geometrical_volume[v]
                               + structures[2].geometrical_volume[v] > One
                         /\ p1[key] # p2[key] )
                       => volumes[key][v] # ba.volumes[key][v]

\* Witness of C21: a finished pass over two structures of different
\* compositions whose occupancies at voxel 0 are 0.6 and 0.6; the absorption
\* there differs from the one the other order gives.
C21_Witness ==
    /\ pc = "returned"
    /\ n = 2
    /\ structures[1].composition # structures[2].composition
    /\ structures[1].geometrical_volume[0] = 3
    /\ structures[2].geometrical_volume[0] = 3
    /\ PropertiesOf(structures[1].composition).absorption_per_cm
           # PropertiesOf(structures[2].composition).absorption_per_cm
    /\ volumes["absorption_per_cm"][0]
           # PassOver(<<structures[2], structures[1]>>, 2).volumes["absorption_per_cm"][0]

\* The fraction the k-th structure of the list commits: its added fraction
\* at the voxels of its mask, nothing elsewhere.
CommittedBy(structs, k) ==
    LET g == PassOver(structs, k - 1).global_volume_fractions
        mask == Mask(structs[k].geometrical_volume, g)
        added == AddedVolumeFraction(structs[k].geometrical_volume, g)
    IN  [v \in Voxels |-> IF mask[v] THEN added[v] ELSE 0]

\* The global occupancy is min(1, sum of the occupancies) and the sum of the
\* committed fractions, for the structures processed so far; after the pass
\* every processing order of the list gives the same global occupancy.
GlobalOccupancyIsCappedSum ==
    /\ pc \in {"loop", "returned"} =>
          \A v \in Voxels :
              /\ global_volume_fractions[v] = Min(One, OccupancySum(v))
              /\ global_volume_fractions[v]
                     = SumOver([k \in Processed |-> CommittedBy(structures, k)[v]], 1, n)
    /\ pc = "returned" =>
          \A p \in ProcessingOrders(n) :
              PassOver(Permuted(structures, p), n).global_volume_fractions
                  = global_volume_fractions

\* A step of the loop lowers the global occupancy at no voxel.
GlobalOccupancyGrows ==
    (pc = "loop" /\ pc' = "loop") =>
        \A v \in Voxels : global_volume_fractions'[v] >= global_volume_fractions[v]

\* C22: with occupancies in [0,1], the global occupancy at every voxel is
\* min(1, sum of the occupancies of the structures) and the sum of the
\* fractions they committed, it is the same for every processing order, and
\* no iteration of the loop lowers it.
C22_GlobalOccupancyIsOrderFree ==
    []GlobalOccupancyIsCappedSum /\ [][GlobalOccupancyGrows]_vars

\* Witness of C22: a finished pass over two different structures of which the
\* second was clipped at a voxel, where the occupancies sum to more than 1.
C22_Witness ==
    /\ pc = "returned"
    /\ n = 2
    /\ structures[1] # structures[2]
    /\ \E v \in Voxels :
           /\ OccupancySum(v) > One
           /\ CommittedBy(structures, 2)[v] > 0
           /\ CommittedBy(structures, 2)[v] < structures[2].geometrical_volume[v]
           /\ global_volume_fractions[v] = One

\* The largest single contribution lies between 0 and the global occupancy.
MaxContributionWithinGlobal ==
    \A v \in Voxels :
        0 <= max_added_fractions[v] /\ max_added_fractions[v] <= global_volume_fractions[v]

\* A step of the loop lowers the largest contribution at no voxel and
\* changes the label only where it raises the largest contribution.
LabelFollowsMaxContribution ==
    (pc = "loop" /\ pc' = "loop") =>
        \A v \in Voxels :
            /\ max_added_fractions'[v] >= max_added_fractions[v]
            /\ volumes'[DATA_FIELD_SEGMENTATION][v] # volumes[DATA_FIELD_SEGMENTATION][v]
                  => max_added_fractions'[v] > max_added_fractions[v]

\* C23: at every voxel and after every processed structure max_contribution
\* has not decreased, 0 <= max_contribution <= global_occupancy, and an
\* iteration changes the label at a voxel only if it strictly increases
\* max_contribution there.
C23_LabelChangesOnlyWithLargerContribution ==
    []MaxContributionWithinGlobal /\ [][LabelFollowsMaxContribution]_vars

\* Witness of C23: the second structure committed more than the first at
\* voxel 0, took the label there and raised the largest contribution, which
\* stays below the global occupancy.
C23_Witness ==
    /\ pc = "loop"
    /\ n = 2
    /\ labels_used[1] # None
    /\ labels_used[2] # None
    /\ labels_used[1] # labels_used[2]
    /\ CommittedBy(structures, 1)[0] > 0
    /\ CommittedBy(structures, 2)[0] > CommittedBy(structures, 1)[0]
    /\ Some(volumes[DATA_FIELD_SEGMENTATION][0]) = labels_used[2]
    /\ max_added_fractions[0] = CommittedBy(structures, 2)[0]
    /\ max_added_fractions[0] < global_volume_fractions[0]

\* The label the claimed table gives for a vessel-kind tag, None where the
\* table makes no override.
TableLabel(params5) ==
    LET in(word) == params5.kind = "str" /\ Contains(params5.tokens, word)
    IN  CASE in(<<"artery">>) /\ ~in(<<"random">>) -> Some(SegmentationClasses.ARTERY)
          [] ~(in(<<"artery">>) /\ ~in(<<"random">>))
               /\ in(<<"vein">>) /\ ~in(<<"random">>) -> Some(SegmentationClasses.VEIN)
          [] in(<<"random">>) /\ in(<<"random", "_", "artery">>) ->
               Some(SegmentationClasses.RANDOM_ARTERY)
          [] in(<<"random">>) /\ ~in(<<"random", "_", "artery">>)
               /\ in(<<"random", "_", "vein">>) -> Some(SegmentationClasses.RANDOM_VEIN)
          [] OTHER -> None

\* The iteration just made used the table's label for the structure's tag,
\* and the label of the composition's record where the table has none.
LabelIsOverrideOrRecordLabel ==
    (pc = "loop" /\ n' = n + 1) =>
        labels_used'[n + 1] =
            IF TableLabel(Current.params5) # None
            THEN TableLabel(Current.params5)
            ELSE internal_properties[Current.composition][DATA_FIELD_SEGMENTATION]

IterationOn(c) ==
    /\ pc = "loop"
    /\ n < Len(structures)
    /\ Current.composition = c
    /\ CurrentLookup.ok

\* The step is a call of update_internal_properties() between two passes.
UpdateStep == ops_left' = ops_left - 1

\* The label of a composition's record changes only when a structure of
\* that composition with an override is processed, which writes the
\* override into the record, and when update_internal_properties() is
\* called, which puts the segmentation_type back.
OverrideStaysInRecord ==
    \A c \in CompIds :
        LET before == internal_properties[c][DATA_FIELD_SEGMENTATION]
            after == internal_properties'[c][DATA_FIELD_SEGMENTATION]
        IN  /\ (IterationOn(c) /\ TableLabel(Current.params5) # None) =>
                   after = TableLabel(Current.params5)
            /\ (IterationOn(c) /\ TableLabel(Current.params5) = None) => after = before
            /\ (after # before /\ ~IterationOn(c)) =>
                   UpdateStep /\ after = segmentation_type(c)

\* The last structure before the j-th that shares its composition and has an
\* override, 0 when there is none.
LastOverrideBefore(j) ==
    LET earlier == { i \in 1..(j - 1) :
                        /\ structures[i].composition = structures[j].composition
                        /\ TableLabel(structures[i].params5) # None }
    IN  IF earlier = {} THEN 0 ELSE CHOOSE i \in earlier : \A m \in earlier : m <= i

\* A processed structure without override whose composition an earlier
\* structure with an override shares was composited with that override.
UntaggedTakesEarlierOverride ==
    \A j \in 1..Len(labels_used) :
        (TableLabel(structures[j].params5) = None /\ LastOverrideBefore(j) # 0) =>
            labels_used[j] = TableLabel(structures[LastOverrideBefore(j)].params5)

\* C27: a label override derived from a structure's vessel-kind tag is
\* written into the composition's record and not undone after the
\* structure: it stays the record's label until update_internal_properties()
\* is called, so a later structure of the same composition without a vessel
\* tag is labelled with the earlier structure's override.
C27_OverrideLeaksToLaterStructures ==
    []UntaggedTakesEarlierOverride /\ [][OverrideStaysInRecord]_vars

\* Witness of C27: a structure tagged 'artery' and then an untagged
\* structure of the same composition were processed in a second pass that
\* no update_internal_properties() preceded; the second was labelled ARTERY
\* although the composition's segmentation_type is another class, and the
\* record still holds ARTERY.
C27_Witness ==
    /\ pc = "returned"
    /\ runs_left = MaxRuns - 2
    /\ ops_left = MaxUpdates
    /\ n = 2
    /\ structures[1].params5 = Str(<<"artery">>)
    /\ structures[2].params5 = Missing
    /\ structures[2].composition = structures[1].composition
    /\ labels_used[2] = Some(SegmentationClasses.ARTERY)
    /\ segmentation_type(structures[2].composition) # Some(SegmentationClasses.ARTERY)
    /\ internal_properties[structures[2].composition][DATA_FIELD_SEGMENTATION]
           = Some(SegmentationClasses.ARTERY)

\* The fraction a structure of occupancy occ commits at a voxel of global
\* occupancy g, as the spec states it.
Commits(g, occ) ==
    IF occ > 0 /\ g < One
    THEN (IF g + occ <= One THEN occ ELSE One - g)
    ELSE 0

\* An iteration that composited its structure with the label None changed
\* neither the label nor the largest contribution at any voxel, and added
\* the committed fraction to the global occupancy and, times the property
\* value, to every non-label field.
UnlabelledStructureKeepsLabels ==
    (pc = "loop" /\ n' = n + 1 /\ labels_used'[n + 1] = None) =>
        \A prop \in {PropertiesOf(Current.composition)} :
            \A v \in Voxels :
                LET c == Commits(global_volume_fractions[v], Current.geometrical_volume[v])
                IN  /\ volumes'[DATA_FIELD_SEGMENTATION][v] = volumes[DATA_FIELD_SEGMENTATION][v]
                    /\ max_added_fractions'[v] = max_added_fractions[v]
                    /\ global_volume_fractions'[v] = global_volume_fractions[v] + c
                    /\ \A key \in NonLabelKeys :
                           volumes'[key][v] = volumes[key][v] + c * prop[key]

ListUnchangedBetween(i, j) ==
    \A k \in (i + 1)..j : history[k].op \notin {"append", "remove"}

\* C11: when get_properties_for_wavelength(w) returned and is called again
\* with the same w while the molecule list was not changed in between, the
\* second call returns the same absorption and scattering, and it takes them
\* from the cache slot of w: it makes no spectrum lookup.
C11_SecondCallFromCache ==
    \A i \in DOMAIN history : \A j \in DOMAIN history :
        ( /\ i < j
          /\ history[i].op = "get" /\ history[j].op = "get"
          /\ history[i].w = history[j].w
          /\ history[i].ok
          /\ ListUnchangedBetween(i, j) )
        => /\ history[j].ok
           /\ history[j].absorption = history[i].absorption
           /\ history[j].scattering = history[i].scattering
           /\ history[j].cached_before
           /\ history[j].evaluated = 0

\* Witness of C11: two calls with the same wavelength, one right after the
\* other; the first evaluated the spectra of two molecules and returned a
\* positive absorption, the second evaluated none.
C11_Witness ==
    \E i \in DOMAIN history :
        /\ i + 1 \in DOMAIN history
        /\ history[i].op = "get" /\ history[i + 1].op = "get"
        /\ history[i].w = history[i + 1].w
        /\ history[i].ok /\ history[i].evaluated = 2 /\ history[i].absorption > 0
        /\ history[i + 1].evaluated = 0
        /\ history[i + 1].absorption = history[i].absorption

\* The absorption of a molecule list at w: volume fraction times the value
\* of the spectrum's table, summed over the molecules.
AbsorptionOf(mols, w) ==
    SumOver([i \in 1..Len(mols) |->
                 mols[i].volume_fraction
                     * get_absorption_for_wavelength(mols[i].spectrum, w).value],
            1, Len(mols))

\* C12: a call of get_properties_for_wavelength(w) that finds the cache slot
\* of w unset and returns, returns as absorption the sum over the member
\* molecules of volume_fraction x spectrum.get_absorption_for_wavelength(w),
\* and the cache slot of w holds this absorption and the returned scattering.
C12_FirstCallComputesAndCaches ==
    \A i \in DOMAIN history :
        (history[i].op = "get" /\ history[i].ok /\ ~history[i].cached_before) =>
            /\ history[i].absorption = AbsorptionOf(history[i].mols, history[i].w)
            /\ cached_absorption[subject][history[i].w] = history[i].absorption
            /\ cached_scattering[subject][history[i].w] = history[i].scattering

\* Witness of C12: a first call on a composition of two molecules with
\* different volume fractions and different spectrum values at w returned,
\* and the slot of w holds the positive absorption it returned.
C12_Witness ==
    /\ Len(history) >= 1
    /\ history[1].op = "get" /\ history[1].ok /\ ~history[1].cached_before
    /\ Len(history[1].mols) = 2
    /\ history[1].mols[1].volume_fraction # history[1].mols[2].volume_fraction
    /\ get_absorption_for_wavelength(history[1].mols[1].spectrum, history[1].w).value
           # get_absorption_for_wavelength(history[1].mols[2].spectrum, history[1].w).value
    /\ history[1].absorption > 0
    /\ cached_absorption[subject][history[1].w] = history[1].absorption

\* update_internal_properties() was called and the molecule list was not
\* changed since.
UpdatedSinceLastChange ==
    \E i \in DOMAIN history :
        history[i].op = "update" /\ ListUnchangedBetween(i, Len(history))

\* The sum of the member molecules' volume fractions.
VolumeFractionSum(mols) ==
    SumOver([i \in 1..Len(mols) |-> mols[i].volume_fraction], 1, Len(mols))

\* The sum over the member molecules of volume_fraction x the property.
AggregateOf(mols, field) ==
    SumOver([i \in 1..Len(mols) |-> mols[i].volume_fraction * mols[i][field]],
            1, Len(mols))

MechanicalFields == {"gruneisen_parameter", "density", "speed_of_sound", "alpha_coefficient"}

\* C13: after update_internal_properties() the record's volume_fraction is
\* the sum of the molecules' volume fractions and each of
\* gruneisen_parameter, density, speed_of_sound and alpha_coefficient is the
\* sum of volume_fraction x property (anisotropy too when the summed volume
\* fraction is at most 1); for an empty composition all of them are 0.
C13_AggregatesAreWeightedSums ==
    UpdatedSinceLastChange =>
        LET mols == molecules[subject]
            r == internal_properties[subject]
        IN  /\ r.volume_fraction = VolumeFractionSum(mols)
            /\ \A f \in MechanicalFields : r[f] = AggregateOf(mols, f)
            /\ VolumeFractionSum(mols) <= One =>
                   r.anisotropy = AggregateOf(mols, "anisotropy")
            /\ mols = << >> =>
                   /\ r.volume_fraction = 0 /\ r.anisotropy = 0
                   /\ \A f \in MechanicalFields : r[f] = 0

\* Witness of C13: a molecule was appended to a composition,
\* update_internal_properties() was called afterwards, the summed volume
\* fraction is at most 1 and the density aggregate differs from the plain sum
\* of the densities.
C13_Witness ==
    /\ Len(history) >= 2
    /\ history[1].op = "append" /\ history[2].op = "update"
    /\ UpdatedSinceLastChange
    /\ Len(molecules[subject]) >= 1
    /\ VolumeFractionSum(molecules[subject]) <= One
    /\ internal_properties[subject].density = AggregateOf(molecules[subject], "density")
    /\ internal_properties[subject].density
           # SumOver([i \in 1..Len(molecules[subject]) |-> molecules[subject][i].density],
                     1, Len(molecules[subject]))
    /\ internal_properties[subject].anisotropy > 0

\* C14: after update_internal_properties() on a composition whose summed
\* volume fraction s is strictly greater than 1, the anisotropy is the
\* weighted sum divided by s (anisotropy x s = weighted sum) and the four
\* other aggregates are the undivided weighted sums; when s is 1 or below,
\* the anisotropy is the undivided weighted sum as well.
C14_OnlyAnisotropyRenormalized ==
    UpdatedSinceLastChange =>
        LET mols == molecules[subject]
            r == internal_properties[subject]
            s == VolumeFractionSum(mols)
        IN  /\ \A f \in MechanicalFields : r[f] = AggregateOf(mols, f)
            /\ s > One => r.anisotropy * s = AggregateOf(mols, "anisotropy") * One
            /\ s <= One => r.anisotropy = AggregateOf(mols, "anisotropy")

\* Witness of C14: update_internal_properties() was called on a composition
\* whose volume fractions sum to more than 1; the anisotropy is smaller than
\* its weighted sum and the density is its weighted sum, not 0.
C14_Witness ==
    /\ UpdatedSinceLastChange
    /\ VolumeFractionSum(molecules[subject]) > One
    /\ internal_properties[subject].anisotropy > 0
    /\ internal_properties[subject].anisotropy < AggregateOf(molecules[subject], "anisotropy")
    /\ internal_properties[subject].density = AggregateOf(molecules[subject], "density")
    /\ internal_properties[subject].density > 0

\* C26: once get_properties_for_wavelength(w) has returned, every later call
\* with w returns the absorption and scattering of that first call, computed
\* from the molecule list as it was then, and the cache slot of w keeps
\* them, whatever molecules were appended or removed and whether or not
\* update_internal_properties() was called since; the mechanical aggregates
\* follow the list after update_internal_properties().
C26_CacheOutlivesListChanges ==
    /\ \A i \in DOMAIN history :
          (history[i].op = "get" /\ history[i].ok) =>
              /\ cached_absorption[subject][history[i].w] = history[i].absorption
              /\ cached_scattering[subject][history[i].w] = history[i].scattering
              /\ ~history[i].cached_before =>
                     history[i].absorption = AbsorptionOf(history[i].mols, history[i].w)
              /\ \A j \in DOMAIN history :
                     (i < j /\ history[j].op = "get" /\ history[j].w = history[i].w) =>
                         /\ history[j].ok
                         /\ history[j].evaluated = 0
                         /\ history[j].absorption = history[i].absorption
                         /\ history[j].scattering = history[i].scattering
    /\ UpdatedSinceLastChange =>
          \A f \in MechanicalFields :
              internal_properties[subject][f] = AggregateOf(molecules[subject], f)

\* Witness of C26: a lookup of w, then a molecule appended or removed, then
\* update_internal_properties(), then a second lookup of w that returned the
\* first call's absorption, which is not the absorption of the list as it is
\* now, while the density aggregate is the one of the list as it is now.
C26_Witness ==
    /\ Len(history) = 4
    /\ history[1].op = "get" /\ history[1].ok /\ history[1].absorption > 0
    /\ history[2].op \in {"append", "remove"}
    /\ history[3].op = "update"
    /\ history[4].op = "get" /\ history[4].w = history[1].w
    /\ history[4].absorption = history[1].absorption
    /\ history[4].absorption # AbsorptionOf(molecules[subject], history[4].w)
    /\ molecules[subject] # << >>
    /\ internal_properties[subject].density = AggregateOf(molecules[subject], "density")
    /\ internal_properties[subject].density # AggregateOf(history[1].mols, "density")

\* The last direct call was update_internal_properties().
JustUpdated == history # << >> /\ history[Len(history)].op = "update"

\* C30: update_internal_properties() rebuilds the record from scratch.
\* Right after it, whatever update, lookup and label-writing calls came
\* before (another update_internal_properties() on the same list included),
\* the aggregates are the weighted sums of the molecule list taken once and
\* the record's label is the composition's segmentation_type.
C30_UpdateRebuildsFromScratch ==
    JustUpdated =>
        LET mols == molecules[subject]
            r == internal_properties[subject]
            s == VolumeFractionSum(mols)
        IN  /\ r[DATA_FIELD_SEGMENTATION] = segmentation_type(subject)
            /\ r.volume_fraction = s
            /\ \A f \in MechanicalFields : r[f] = AggregateOf(mols, f)
            /\ s > One => r.anisotropy * s = AggregateOf(mols, "anisotropy") * One
            /\ s <= One => r.anisotropy = AggregateOf(mols, "anisotropy")

\* Witness of C30: a label was written into the record of a composition
\* that has molecules and a segmentation_type, and update_internal_properties()
\* was then called twice in a row; the label is the segmentation_type again
\* and the density is the weighted sum taken once.
C30_Witness ==
    /\ Len(history) >= 3
    /\ history[Len(history) - 2].op = "override"
    /\ history[Len(history) - 1].op = "update"
    /\ history[Len(history)].op = "update"
    /\ segmentation_type(subject) # None
    /\ internal_properties[subject][DATA_FIELD_SEGMENTATION] = segmentation_type(subject)
    /\ internal_properties[subject].density > 0
    /\ internal_properties[subject].density = AggregateOf(molecules[subject], "density")

(***************************************************************************)
(* Properties of AbsorptionSpectrum and Molecule                           *)
(***************************************************************************)

\* The point (x, y) lies on the polygon through the raw points: y is the raw
\* value at a raw wavelength, and between two neighbouring raw points it is
\* on the straight line through them.
OnInterpolant(x, y, xp, fp) ==
    \E k \in 1..Len(xp) :
        \/ xp[k] = x /\ y = fp[k]
        \/ /\ k < Len(xp)
           /\ xp[k] < x /\ x < xp[k + 1]
           /\ (y - fp[k]) * (xp[k + 1] - xp[k]) = (x - xp[k]) * (fp[k + 1] - fp[k])

\* The constructor call of request was made and gave an object.
SpectrumBuilt == outcome # None /\ request.kind = "spectrum" /\ outcome[1].ok

\* C15: a spectrum built from ascending raw wavelengths with minimum min and
\* maximum max has a table of exactly max - min + 1 entries, and for every
\* integer w in min..max get_absorption_for_wavelength(w) is the linear
\* interpolation of the raw points at w; a spectrum built from
\* ([450, 1000], [c, c]) returns c for every integer w in 450..1000.
C15_TableIsLinearInterpolation ==
    SpectrumBuilt =>
        LET sp == outcome[1].object[1]
            xp == request.wavelengths
            fp == request.absorption
            mn == xp[1]
            mx == xp[Len(xp)]
        IN  /\ Len(sp.new_absorptions) = mx - mn + 1
            /\ \A w \in mn..mx :
                   /\ get_absorption_for_wavelength(sp, w).ok
                   /\ OnInterpolant(w, get_absorption_for_wavelength(sp, w).value, xp, fp)
            /\ (xp = <<450, 1000>> /\ fp[1] = fp[2]) =>
                   \A w \in 450..1000 :
                       get_absorption_for_wavelength(sp, w).value = fp[1]

\* Witness of C15: a spectrum was built from three raw points that are not
\* on one line; the table has four entries and the value at wavelength 2,
\* between the raw wavelengths 1 and 3, is half-way between their values.
C15_Witness ==
    /\ SpectrumBuilt
    /\ request.wavelengths = <<1, 3, 4>>
    /\ request.absorption = <<0, 12, 6>>
    /\ Len(outcome[1].object[1].new_absorptions) = 4
    /\ get_absorption_for_wavelength(outcome[1].object[1], 2).value = 6
    /\ get_absorption_for_wavelength(outcome[1].object[1], 4).value = 6

\* C16 (as claimed): the comparison of two AbsorptionSpectrum objects with
\* == is true if and only if their names, their raw wavelength arrays and
\* their raw absorption arrays are equal.
C16_EqualityByNameAndArrays ==
    (outcome # None /\ request.kind = "eq" /\ IsAbsorptionSpectrum(request.other)) =>
        ( outcome[1].truth <=>
              /\ request.self.spectrum_name = request.other.spectrum_name
              /\ request.self.wavelengths = request.other.wavelengths
              /\ request.self.absorption_per_centimeter
                     = request.other.absorption_per_centimeter )

\* C17: the constructor call of an AbsorptionSpectrum whose wavelength array
\* and absorption array differ in length fails with an error and gives no
\* object: nothing is cut to the shorter length or filled up.
C17_LengthMismatchFails ==
    ( /\ outcome # None
      /\ request.kind = "spectrum"
      /\ Len(request.wavelengths) # Len(request.absorption) )
    => /\ ~outcome[1].ok
       /\ outcome[1].error = "ValueError"
       /\ outcome[1].object = None

\* Witness of C17: the call with two wavelengths and three absorption values
\* was made and raised ValueError.
C17_Witness ==
    /\ outcome # None
    /\ request.kind = "spectrum"
    /\ Len(request.wavelengths) = 2
    /\ Len(request.absorption) = 3
    /\ ~outcome[1].ok
    /\ outcome[1].error = "ValueError"

\* C18 (as claimed): the constructor call of a Molecule (with a valid or an
\* unset spectrum) fails with a type error if and only if a supplied field is
\* not numeric: ints and floats are accepted for every field, and an unset
\* field takes its default.
C18_FailsOnlyOnNonNumeric ==
    ( /\ outcome # None
      /\ request.kind = "molecule"
      /\ (request.spectrum = None \/ IsAbsorptionSpectrum(request.spectrum[1])) )
    => /\ ~outcome[1].ok <=> (\E f \in FieldNames : request.args[f].type = "str")
       /\ ~outcome[1].ok => outcome[1].error = "TypeError"
       /\ outcome[1].ok =>
              \A f \in FieldNames :
                  request.args[f].type = "none" =>
                      outcome[1].molecule[1][f] = DefaultOf(f).value

\* C29: get_absorption_for_wavelength makes no bounds check.  For an
\* integer w above max_wavelength the call fails with an index error; for
\* an integer w below min_wavelength with
\* w >= min_wavelength - (max_wavelength - min_wavelength + 1) it raises no
\* error and returns the table value of the wavelength
\* w + (max_wavelength - min_wavelength + 1).
C29_NoBoundsCheck ==
    (outcome # None /\ request.kind = "lookup") =>
        LET sp == request.self
            w == request.w
            span == sp.max_wavelength - sp.min_wavelength + 1
        IN  /\ w > sp.max_wavelength => ~outcome[1].ok
            /\ (sp.min_wavelength - span <= w /\ w < sp.min_wavelength) =>
                   /\ outcome[1].ok
                   /\ OnInterpolant(w + span, outcome[1].value,
                                    sp.wavelengths, sp.absorption_per_centimeter)

\* Witness of C29: the spectrum through (1, 0), (3, 12), (4, 6) was asked for
\* the wavelength -2, below its minimum 1, and returned 6, the table value
\* of wavelength 2, which is not the value at its minimum.
C29_Witness ==
    /\ outcome # None
    /\ request.kind = "lookup"
    /\ request.self.wavelengths = <<1, 3, 4>>
    /\ request.w = -2
    /\ outcome[1].ok
    /\ outcome[1].value = 6

(***************************************************************************)
(* Properties of AbsorptionSpectrumLibrary                                 *)
(***************************************************************************)

\* C25 (as claimed): after any sequence of earlier calls of
\* get_spectrum_by_name, get_spectra_names and iterations over
\* SPECTRAL_LIBRARY, get_spectrum_by_name(n) returns the spectrum named n
\* for each of the ten library names and raises LookupError only for a name
\* no library spectrum has, and get_spectra_names() returns all ten names.
C25_LookupsIndependentOfEarlierCalls ==
    \A k \in 1..Len(library_calls) :
        LET call == library_calls[k]
        IN  /\ call.op = "get_spectrum_by_name" =>
                  IF \E m \in 1..Len(SpectraNames) : SpectraNames[m] = call.spectrum_name
                  THEN call.ok /\ call.value[1].spectrum_name = call.spectrum_name
                  ELSE ~call.ok
            /\ call.op = "get_spectra_names" =>
                  { call.value[m] : m \in 1..Len(call.value) }
                      = { SpectraNames[m] : m \in 1..Len(SpectraNames) }

====
